---- MODULE Spec2Model ----
(***************************************************************************)
(* The directive lifecycle engine: the on-disk directive store (one folder *)
(* per state), the decomposer that writes directives into new, the         *)
(* sequential pass (process_single_directive) and the batch run            *)
(* (run_batch_processing) of the engage agent, and the session context.    *)
(* File operations (read, write, rename) are the atomic steps, so that     *)
(* several workers interleave on the same folders as processes do.         *)
(***************************************************************************)
EXTENDS Integers, Sequences, FiniteSets, TLC

\* ---- bounds --------------------------------------------------------------
NumDirectives == 2
NumWorkers == 2
MaxCtime == 1
MaxLog == 1
MaxDrift == 1
NumArtifacts == 2
MaxAttempts == 3
MaxDelay == 2
MaxRequests == 3
MaxPolls == 2

\* ---- program constants ----------------------------------------------------
DefaultExemplarThreshold == 30
SlowThreshold == 60

\* The files of the store: directive documents written by the decomposer or the
\* bridge, and the output artifacts that passes write.
Directives == 1..NumDirectives
Artifacts == (NumDirectives + 1)..(NumDirectives + NumArtifacts)
Files == Directives \cup Artifacts
Workers == 1..NumWorkers
None == 0

TerminalFolders == {"success", "failed", "slow", "exemplar"}
CompletionFolders == {"success", "slow", "exemplar"}
LifecycleFolders == {"new"} \cup TerminalFolders
Folders == LifecycleFolders \cup {"processing"}

\* The header status values; "absent" marks a path with no file.
Absent == "absent"
\* The priorities the decomposer's analysis assigns in the runs explored (it can
\* also assign low; ready selection over every priority value is SpecSelect's).
DecomposerPriorities == {"high", "medium"}
\* Measured durations: at the exemplar threshold, just above it, above the slow one.
Durations == {DefaultExemplarThreshold, DefaultExemplarThreshold + 1, SlowThreshold + 1}

\* A directive that has not been written yet.
NoAttr == [priority |-> "", fmt |-> "", prereqs |-> <<>>, todo |-> FALSE, meta |-> FALSE,
           artifact |-> FALSE, stem |-> "", slug |-> ""]
NoAges == [d \in Files |-> -1]
NoRes == [success |-> FALSE, duration |-> 0]
\* What a provider call (or the local script) can answer: a success after any of
\* the durations, or a failure (whose duration decides nothing).
Outcomes == {[success |-> TRUE, duration |-> t] : t \in Durations}
                \cup {[success |-> FALSE, duration |-> DefaultExemplarThreshold]}

VARIABLES
    files,          \* files[f][d]: header status of file d in folder f, or Absent
    attr,           \* attr[d]: what the document d says besides its status, and its name
    ctime,          \* ctime[d]: inode change time of the file named d
    settings,       \* exemplar_enabled, exemplar_threshold_seconds
    created_slugs,  \* process_prompt: the directives written so far by the running call
    pc,             \* pc[w]: the worker's position in its pass
    sel,            \* sel[w]: directive_path of the pass, or None
    ages,           \* ages[w]: the ages find_next_directive took in the scan of the pass
    res,            \* res[w]: (success, duration) of the last execution
    queue,          \* queue[w]: available_directives still to visit in a batch run
    session_context,\* session_context[w]: in-memory completed_directives of worker w
    session_file,   \* completed_directives in the session file the workers loaded
    executed,       \* executed[d]: the workers that dispatched d to the provider
    chat_pc,        \* chat_completion: where the call stands
    call,           \* chat_completion: the arguments retry_attempts and retry_delay
    attempt,        \* chat_completion: the loop index
    retry_delay,    \* chat_completion: the delay the next sleep will take
    calls,          \* the answers of the provider to the requests posted so far
    sleeps,         \* the arguments of time.sleep so far
    result,         \* what chat_completion returned
    batch_pc,       \* process_directives_in_batches: where the call stands
    requests,       \* process_directives_in_batches: its argument
    batches,        \* the groups group_requests_for_batching returned, not yet turned into jobs
    batch_jobs,     \* the jobs create_batch_job returned
    active_batches, \* the jobs submit_batch_job accepted
    job_status,     \* job_status[j]: BatchJob.status of batch_jobs[j]
    retrieval,      \* retrieval[j]: what became of the download of the results of batch_jobs[j]
    all_results,    \* the (request id, outcome) pairs process_directives_in_batches returns
    polls,          \* wait_for_batch_completion: the rounds of its loop so far
    decomp_pc,      \* process_prompt: where the call stands
    prompt,         \* process_prompt: its argument, a sequence of tokens
    use_llm,        \* process_prompt: use_llm and (platform or model), the test of analyze_prompt
    todos,          \* the records analyze_prompt returned
    written,        \* written[name]: the document process_prompt wrote under that file name
    bridge_pc,      \* claude_todos_to_directives: where the call stands
    claude_todos,   \* claude_todos_to_directives: its argument
    bridged,        \* the directive files the bridge wrote, each with the folder it is in
    contexts,       \* contexts[dir]: the session context file in that directory, or NoContext
    memory,         \* EngageAgent.session_context, or NoContext before the agent is built
    projection,     \* what get_claude_todos_from_directives returned
    cost_pc,        \* execute_directive in API mode: where the call stands
    cost_call,      \* the directive's platform and model, the keys configured, the usage reported
    ran_on,         \* the platform and the model of the result of chat_completion
    cost,           \* what _calculate_cost returned, in units of 10^-8 dollar
    save_pc,        \* _save_session_context of each worker: where the call stands
    context_file,   \* the bytes of the session file, as the chunks json.dump writes
    offset,         \* offset[w]: the position of worker w's file object
    pending,        \* pending[w]: the chunks json.dump of worker w has not handed to the file yet
    saved,          \* saved[w]: the completed_directives of worker w's in-memory context
    observed,       \* observed[r]: what the last read of the session file by reader r found
    own_file,       \* the newest session-*.json of the agent's context directory: missing, unreadable or readable
    bridge_file,    \* the newest session-*.json of the context directory of the agent's bridge
    endpoint,       \* _openai_completion: the endpoint of the configuration of the model of the call
    settings_pc,    \* Settings.__init__ and get: where the calls stand
    settings_file,  \* the .computer-settings file: whether it exists and the text it gives to each key
    config,         \* Settings._config, what _load_settings returned
    got,            \* what the last Settings.get returned
    paired,         \* paired[a]: the directive the decomposer wrote the output artifact a for, or None
    updated_by,     \* updated_by[a]: the files whose pass rewrote the output artifact a, in order
    status_pc,      \* _update_directive_status: where the call stands
    file_text,      \* the lines of the directive file before the call, each a sequence of tokens
    new_status,     \* _update_directive_status: its argument
    rewritten,      \* the lines of the directive file after the call
    wait_jobs,      \* wait_for_batch_completion: its list batch_jobs, the jobs it still polls
    completed_jobs, \* wait_for_batch_completion: the list completed_jobs it returns
    repolled,       \* jobs whose status was asked for after it had been reported terminal
    success_count,  \* run_batch_processing: its local success_count, per worker
    failed_count,   \* run_batch_processing: its local failed_count, per worker
    claimed         \* run_batch_processing: the directives _claim_directive returned True for

lifecycle_vars == <<files, attr, ctime, settings, created_slugs, pc, sel, ages, res, queue,
                    session_context, session_file, executed>>

chat_vars == <<chat_pc, call, attempt, retry_delay, calls, sleeps, result>>

batch_vars == <<batch_pc, requests, batches, batch_jobs, active_batches,
                job_status, retrieval, all_results, polls>>

decomp_vars == <<decomp_pc, prompt, use_llm, todos, written>>

bridge_vars == <<bridge_pc, claude_todos, bridged, contexts, memory, projection>>

cost_vars == <<cost_pc, cost_call, ran_on, cost>>

save_vars == <<save_pc, context_file, offset, pending, saved, observed>>

session_vars == <<own_file, bridge_file>>

gateway_vars == <<endpoint>>

settings_vars == <<settings_pc, settings_file, config, got>>

artifact_vars == <<paired, updated_by>>

status_vars == <<status_pc, file_text, new_status, rewritten>>

wait_vars == <<wait_jobs, completed_jobs, repolled>>

count_vars == <<success_count, failed_count, claimed>>

\* Everything outside the lifecycle but the counters of the batch pass.
uncounted_vars == <<chat_vars, batch_vars, decomp_vars, bridge_vars, cost_vars, save_vars,
                    session_vars, gateway_vars, settings_vars, artifact_vars, status_vars,
                    wait_vars>>

ai_vars == <<chat_pc, call, attempt, retry_delay, calls, sleeps, result,
             batch_pc, requests, batches, batch_jobs, active_batches,
             job_status, retrieval, all_results, polls,
             decomp_pc, prompt, use_llm, todos, written,
             bridge_pc, claude_todos, bridged, contexts, memory, projection,
             cost_pc, cost_call, ran_on, cost,
             save_pc, context_file, offset, pending, saved, observed,
             own_file, bridge_file,
             endpoint,
             settings_pc, settings_file, config, got,
             paired, updated_by,
             status_pc, file_text, new_status, rewritten,
             wait_jobs, completed_jobs, repolled,
             success_count, failed_count, claimed>>

vars == <<files, attr, ctime, settings, created_slugs, pc, sel, ages, res, queue,
          session_context, session_file, executed,
          chat_pc, call, attempt, retry_delay, calls, sleeps, result,
          batch_pc, requests, batches, batch_jobs, active_batches,
          job_status, retrieval, all_results, polls,
          decomp_pc, prompt, use_llm, todos, written,
          bridge_pc, claude_todos, bridged, contexts, memory, projection,
          cost_pc, cost_call, ran_on, cost,
          save_pc, context_file, offset, pending, saved, observed,
          own_file, bridge_file,
          endpoint,
          settings_pc, settings_file, config, got,
          paired, updated_by,
          status_pc, file_text, new_status, rewritten,
          wait_jobs, completed_jobs, repolled,
          success_count, failed_count, claimed>>

\* ---- the directive store ---------------------------------------------------
Exists(f, d) == files[f][d] # Absent
InFolder(f) == {d \in Files : Exists(f, d)}

\* os.rename / shutil.move on one filesystem: the file leaves src and replaces dst.
Rename(fs, src, dst, d) ==
    [fs EXCEPT ![dst][d] = fs[src][d], ![src][d] = Absent]

\* Path.write_text: creates the file when it is missing.
WriteStatus(fs, f, d, st) == [fs EXCEPT ![f][d] = st]

\* ---- parsing and ready selection -------------------------------------------
\* The sequences that enumerate S once each: the orders glob may return.
Perms(S) == {s \in [1..Cardinality(S) -> S] : \A i, j \in DOMAIN s : s[i] = s[j] => i = j}

\* str.lower on the priority values of the model.
Lower(p) == IF p = "HIGH" THEN "high" ELSE p

get_priority_score(priority) ==
    CASE Lower(priority) = "high" -> 3
      [] Lower(priority) = "medium" -> 2
      [] Lower(priority) = "low" -> 1
      [] OTHER -> 1

\* metadata.get('priority', 'medium'); every header of the model has the key.
PriorityOf(d) == attr[d].priority

\* get_file_age: time.time() - st_ctime. The files of the model were last changed
\* at 0..MaxCtime; a scan starts at Now and its clock has advanced by drift when
\* the age of a file is taken.
Now == MaxCtime
get_file_age(d, drift) == (Now + drift) - ctime[d]

\* The clock readings of one scan, by position in the enumeration.
Drifts(n) == {s \in [1..n -> 0..MaxDrift] : \A i, j \in 1..n : i <= j => s[i] <= s[j]}

\* What the four patterns find in a document, by the way it records its
\* prerequisites: "section" is the decomposer's "## Prerequisites" heading
\* followed by "- [[name]]" lines (no colon after the word, so no pattern
\* matches); "header" is a YAML block list under "prerequisites:" (\s* runs
\* over the line end and (.+) takes the first item only); "inline" is
\* "Prerequisites: a, b" on one line (split on commas).
extract_prerequisites(d) ==
    CASE attr[d].fmt = "inline" -> attr[d].prereqs
      [] attr[d].fmt = "header" /\ attr[d].prereqs # <<>> -> <<Head(attr[d].prereqs)>>
      [] OTHER -> <<>>

\* The comparison with the file name alone.
MatchesCompleted_filename_only(prereq, c) == prereq = <<"file", c>>

\* One entry of completed_info against a cleaned prerequisite.
MatchesCompleted(prereq, c) ==
    \/ prereq = <<"file", c>>
    \/ attr[c].meta /\ prereq = <<"slug", c>>
    \/ attr[c].meta /\ attr[c].todo /\ prereq = <<"todo", c>>

\* The check with failed among the folders searched.
check_prerequisites_met_any_terminal(prerequisites) ==
    \A i \in DOMAIN prerequisites :
        \E f \in TerminalFolders : \E c \in InFolder(f) :
            MatchesCompleted(prerequisites[i], c)

check_prerequisites_met(prerequisites) ==
    \A i \in DOMAIN prerequisites :
        \E f \in CompletionFolders : \E c \in InFolder(f) :
            MatchesCompleted(prerequisites[i], c)

\* A file of new that find_next_directive and the batch filter keep.
IsCandidate(d) ==
    /\ attr[d].meta
    /\ check_prerequisites_met(extract_prerequisites(d))

SelectCandidates(order) == SelectSeq(order, IsCandidate)

\* The candidates list of find_next_directive: one record per kept file, in
\* enumeration order.
Candidates(order, drift) ==
    LET kept == SelectSeq([i \in DOMAIN order |-> i], LAMBDA i : IsCandidate(order[i]))
    IN  [k \in DOMAIN kept |->
            [path |-> order[kept[k]],
             priority_score |-> get_priority_score(PriorityOf(order[kept[k]])),
             age |-> get_file_age(order[kept[k]], drift[kept[k]])]]

\* The order with the two components of the key exchanged.
KeyLess_age_first(a, b) ==
    \/ a.age < b.age
    \/ a.age = b.age /\ a.priority_score < b.priority_score

\* Tuple order on the sort key (priority_score, age).
KeyLess(a, b) ==
    \/ a.priority_score < b.priority_score
    \/ a.priority_score = b.priority_score /\ a.age < b.age

\* candidates.sort(key=(priority_score, age), reverse=True)[0]: the sort is
\* stable, so among the candidates of greatest key the first enumerated wins.
SortedFirst(candidates) ==
    CHOOSE i \in DOMAIN candidates :
        /\ \A j \in DOMAIN candidates : ~KeyLess(candidates[i], candidates[j])
        /\ \A j \in 1..(i-1) : KeyLess(candidates[j], candidates[i])

find_next_directive(order, drift) ==
    LET candidates == Candidates(order, drift)
    IN  IF candidates = <<>> THEN None ELSE candidates[SortedFirst(candidates)].path

\* The ages a scan has taken, by file (-1 for a file that is no candidate).
MeasuredAges(order, drift) ==
    LET candidates == Candidates(order, drift)
    IN  [d \in Files |->
            IF \E k \in DOMAIN candidates : candidates[k].path = d
            THEN candidates[CHOOSE k \in DOMAIN candidates : candidates[k].path = d].age
            ELSE -1]

\* move_directive: the destination folder.
DestFolder(success, duration) ==
    IF success
    THEN IF settings.exemplar_enabled /\ duration <= settings.exemplar_threshold_seconds
         THEN "exemplar"
         ELSE IF duration > SlowThreshold THEN "slow" ELSE "success"
    ELSE "failed"

StatusFor(success) == IF success THEN "completed" ELSE "failed"

\* ---- initial state -----------------------------------------------------------
EmptyStore == [f \in Folders |-> [d \in Files |-> Absent]]

NoResult == [success |-> FALSE, error |-> "", attempts |-> 0, last |-> ""]

\* No chat_completion and no process_directives_in_batches is under way.
NoDecomposition ==
    /\ decomp_pc = "idle"
    /\ prompt = <<>>
    /\ use_llm = FALSE
    /\ todos = <<>>
    /\ written = <<>>

NoContext == [session_id |-> "", todos |-> <<>>, completed_directives |-> <<>>]

ContextDirs == {"directives/context", "context"}

NoBridge ==
    /\ bridge_pc = "idle"
    /\ claude_todos = <<>>
    /\ bridged = <<>>
    /\ contexts = [dir \in ContextDirs |-> NoContext]
    /\ memory = NoContext
    /\ projection = {}

NoCost ==
    /\ cost_pc = "idle"
    /\ cost_call = [platform |-> "", model |-> "", claude_key |-> FALSE, openai_key |-> FALSE,
                    tokens_in |-> 0, tokens_out |-> 0]
    /\ ran_on = [platform |-> "", model |-> ""]
    /\ cost = 0

\* Who reads the session file besides its writer: a worker that starts
\* (_load_or_create_session_context) and the bridge (_load_session_context).
Readers == {"worker", "bridge"}

NoSave ==
    /\ save_pc = [w \in Workers |-> "idle"]
    /\ context_file = <<>>
    /\ offset = [w \in Workers |-> 0]
    /\ pending = [w \in Workers |-> <<>>]
    /\ saved = [w \in Workers |-> <<>>]
    /\ observed = [r \in Readers |-> "none"]

\* What a glob and a json.load can find of a session file.
FileStates == {"missing", "unreadable", "readable"}

NoSession ==
    /\ own_file = "readable"
    /\ bridge_file = "missing"

NoGateway ==
    /\ endpoint = "/v1/chat/completions"

\* The keys of the settings explored: three of the schema and one it does not know.
SettingKeys == {"exemplar_threshold_seconds", "exemplar_enabled", "log_level", "log_file", "colour"}
\* A key without a line in the file.
NoLine == "<no line>"
\* A Python value: its type, and its number or its text.
Value(t, n, s) == [type |-> t, n |-> n, s |-> s]
MissingValue == Value("missing", 0, "")

NoSettings ==
    /\ settings_pc = "idle"
    /\ settings_file = [exists |-> FALSE, text |-> [k \in SettingKeys |-> NoLine]]
    /\ config = [k \in SettingKeys |-> MissingValue]
    /\ got = MissingValue

NoArtifacts ==
    /\ paired = [a \in Artifacts |-> None]
    /\ updated_by = [a \in Artifacts |-> <<>>]

NoRewrite ==
    /\ status_pc = "idle"
    /\ file_text = <<>>
    /\ new_status = ""
    /\ rewritten = <<>>

NoWaiting ==
    /\ wait_jobs = <<>>
    /\ completed_jobs = <<>>
    /\ repolled = {}

NoCounts ==
    /\ success_count = [w \in Workers |-> 0]
    /\ failed_count = [w \in Workers |-> 0]
    /\ claimed = [w \in Workers |-> {}]

NoCalls ==
    /\ NoCounts
    /\ NoWaiting
    /\ NoRewrite
    /\ NoArtifacts
    /\ NoSettings
    /\ NoGateway
    /\ NoSession
    /\ NoSave
    /\ NoDecomposition
    /\ NoBridge
    /\ NoCost
    /\ chat_pc = "idle"
    /\ call = [retry_attempts |-> 0, retry_delay |-> 0]
    /\ attempt = 0
    /\ retry_delay = 0
    /\ calls = <<>>
    /\ sleeps = <<>>
    /\ result = NoResult
    /\ batch_pc = "idle"
    /\ requests = <<>>
    /\ batches = <<>>
    /\ batch_jobs = <<>>
    /\ active_batches = <<>>
    /\ job_status = <<>>
    /\ retrieval = <<>>
    /\ all_results = {}
    /\ polls = 0

Init ==
    /\ NoCalls
    /\ files = EmptyStore
    /\ attr = [d \in Files |-> NoAttr]
    /\ ctime = [d \in Files |-> 0]
    /\ settings = [exemplar_enabled |-> TRUE, exemplar_threshold_seconds |-> DefaultExemplarThreshold]
    /\ created_slugs = <<>>
    /\ pc = [w \in Workers |-> "idle"]
    /\ sel = [w \in Workers |-> None]
    /\ ages = [w \in Workers |-> NoAges]
    /\ res = [w \in Workers |-> NoRes]
    /\ queue = [w \in Workers |-> <<>>]
    /\ session_context = [w \in Workers |-> <<>>]
    /\ session_file = <<>>
    /\ executed = [d \in Files |-> {}]

\* ---- the decomposer ----------------------------------------------------------
Unwritten == {d \in Directives : attr[d] = NoAttr}
Written == Directives \ Unwritten

\* One iteration of process_prompt's loop: create_directive_file writes the next
\* directive into new with status pending and links to all earlier ones.
process_prompt_step ==
    /\ UNCHANGED ages
    /\ Unwritten # {}
    /\ LET d == CHOOSE x \in Unwritten : \A y \in Unwritten : x <= y IN
       \E p \in DecomposerPriorities :
          /\ files' = WriteStatus(files, "new", d, "pending")
          /\ attr' = [attr EXCEPT ![d] =
                        [priority |-> p, fmt |-> "section",
                         prereqs |-> [i \in DOMAIN created_slugs |-> <<"file", created_slugs[i]>>],
                         todo |-> FALSE, meta |-> TRUE,
                         artifact |-> FALSE, stem |-> "directive", slug |-> "directive"]]
          /\ ctime' = [ctime EXCEPT ![d] = 0]
          /\ created_slugs' = Append(created_slugs, d)
    /\ UNCHANGED <<settings, pc, sel, res, queue, session_context, session_file, executed>>
    /\ UNCHANGED ai_vars

process_prompt_return ==
    /\ UNCHANGED ages
    /\ created_slugs # <<>>
    /\ created_slugs' = <<>>
    /\ UNCHANGED <<files, attr, ctime, settings, pc, sel, res, queue,
                   session_context, session_file, executed>>
    /\ UNCHANGED ai_vars

\* ---- the sequential pass: process_single_directive ---------------------------
LogFull(w) == Len(session_context[w]) >= MaxLog

\* find_next_directive over the files of new, in the order glob lists them.
SelectStep(w) ==
    /\ pc[w] = "idle"
    /\ \E order \in Perms(InFolder("new")) : \E drift \in Drifts(Len(order)) :
          LET directive_path == find_next_directive(order, drift) IN
          /\ directive_path # None
          /\ sel' = [sel EXCEPT ![w] = directive_path]
          /\ ages' = [ages EXCEPT ![w] = MeasuredAges(order, drift)]
    /\ pc' = [pc EXCEPT ![w] = "selected"]
    /\ UNCHANGED <<files, attr, ctime, settings, created_slugs, res, queue,
                   session_context, session_file, executed>>
    /\ UNCHANGED ai_vars

\* A pass of a worker whose log has room for one more entry.
SeqSelect(w) == ~LogFull(w) /\ SelectStep(w)

\* A pass without work that puts the documents whose header does not parse into
\* failed.
SeqNoWork_quarantines(w) ==
    /\ UNCHANGED ages
    /\ pc[w] = "idle"
    /\ \E order \in Perms(InFolder("new")) :
          find_next_directive(order, [i \in DOMAIN order |-> 0]) = None
    /\ files' = [files EXCEPT
                   !["new"] = [d \in Files |-> IF attr[d].meta THEN files["new"][d] ELSE Absent],
                   !["failed"] = [d \in Files |-> IF Exists("new", d) /\ ~attr[d].meta
                                                  THEN "failed" ELSE files["failed"][d]]]
    /\ pc' = [pc EXCEPT ![w] = "done"]
    /\ UNCHANGED <<attr, ctime, settings, created_slugs, sel, res, queue,
                   session_context, session_file, executed>>
    /\ UNCHANGED ai_vars

\* find_next_directive returns None: process_single_directive returns False, the
\* run loop breaks (run) or the process exits with status 1 (runSingle).
SeqNoWork(w) ==
    /\ UNCHANGED ages
    /\ pc[w] = "idle"
    /\ \E order \in Perms(InFolder("new")) :
          find_next_directive(order, [i \in DOMAIN order |-> 0]) = None
    /\ pc' = [pc EXCEPT ![w] = "done"]
    /\ UNCHANGED <<files, attr, ctime, settings, created_slugs, sel, res, queue,
                   session_context, session_file, executed>>
    /\ UNCHANGED ai_vars

\* execute_directive: reading a file that is gone raises inside the try and is
\* reported as a failure without a provider call; otherwise the provider (or the
\* local script) is called and answers with an outcome and a duration.
SeqExecute(w) ==
    /\ pc[w] = "selected"
    /\ IF Exists("new", sel[w])
       THEN /\ \E o \in Outcomes : res' = [res EXCEPT ![w] = o]
            /\ executed' = [executed EXCEPT ![sel[w]] = @ \cup {w}]
       ELSE /\ res' = [res EXCEPT ![w] = [success |-> FALSE, duration |-> DefaultExemplarThreshold]]
            /\ UNCHANGED executed
    /\ pc' = [pc EXCEPT ![w] = "executed"]
    /\ ages' = [ages EXCEPT ![w] = NoAges]
    /\ UNCHANGED <<files, attr, ctime, settings, created_slugs, sel, queue,
                   session_context, session_file>>
    /\ UNCHANGED ai_vars

\* _update_session_context_with_directive: extract_task_content reads the file
\* outside any try, so a missing file ends the process; otherwise the summary is
\* appended and the whole in-memory context is written over the session file.
SeqUpdateSession(w) ==
    /\ UNCHANGED ages
    /\ pc[w] = "executed"
    /\ IF Exists("new", sel[w])
       THEN /\ session_context' = [session_context EXCEPT ![w] = Append(@, sel[w])]
            /\ session_file' = session_context'[w]
            /\ pc' = [pc EXCEPT ![w] = "logged"]
            /\ UNCHANGED <<sel, res>>
       ELSE /\ pc' = [pc EXCEPT ![w] = "crashed"]
            /\ sel' = [sel EXCEPT ![w] = None]
            /\ res' = [res EXCEPT ![w] = NoRes]
            /\ UNCHANGED <<session_context, session_file>>
    /\ UNCHANGED <<files, attr, ctime, settings, created_slugs, queue, executed>>
    /\ UNCHANGED ai_vars

\* _update_directive_status, first half: read_text (a failure is caught and the
\* rewrite is skipped).
SeqStatusRead(w) ==
    /\ UNCHANGED ages
    /\ pc[w] = "logged"
    /\ pc' = [pc EXCEPT ![w] = IF Exists("new", sel[w]) THEN "rewriting" ELSE "moving"]
    /\ UNCHANGED <<files, attr, ctime, settings, created_slugs, sel, res, queue,
                   session_context, session_file, executed>>
    /\ UNCHANGED ai_vars

\* _update_directive_status, second half: write_text of the content read, with
\* the status line replaced.
SeqStatusWrite(w) ==
    /\ UNCHANGED ages
    /\ pc[w] = "rewriting"
    /\ files' = WriteStatus(files, "new", sel[w], StatusFor(res[w].success))
    /\ ctime' = [ctime EXCEPT ![sel[w]] = Now]
    /\ pc' = [pc EXCEPT ![w] = "moving"]
    /\ UNCHANGED <<attr, settings, created_slugs, sel, res, queue,
                   session_context, session_file, executed>>
    /\ UNCHANGED ai_vars

\* A move_directive that rewrites the status and leaves the file where it is.
SeqMove_stays(w) ==
    /\ UNCHANGED ages
    /\ pc[w] = "moving"
    /\ pc' = [pc EXCEPT ![w] = "idle"]
    /\ sel' = [sel EXCEPT ![w] = None]
    /\ res' = [res EXCEPT ![w] = NoRes]
    /\ UNCHANGED <<files, attr, ctime, settings, created_slugs, queue,
                   session_context, session_file, executed>>
    /\ UNCHANGED ai_vars

\* move_directive: shutil.move to the folder of the outcome; a missing source
\* raises and ends the process.
SeqMove(w) ==
    /\ UNCHANGED ages
    /\ pc[w] = "moving"
    /\ IF Exists("new", sel[w])
       THEN /\ files' = Rename(files, "new", DestFolder(res[w].success, res[w].duration), sel[w])
            /\ pc' = [pc EXCEPT ![w] = "idle"]
       ELSE /\ pc' = [pc EXCEPT ![w] = "crashed"]
            /\ UNCHANGED files
    /\ sel' = [sel EXCEPT ![w] = None]
    /\ res' = [res EXCEPT ![w] = NoRes]
    /\ UNCHANGED <<attr, ctime, settings, created_slugs, queue,
                   session_context, session_file, executed>>
    /\ UNCHANGED ai_vars

\* ---- the batch run: run_batch_processing --------------------------------------
\* The filter over the files of new: available_directives, in glob order.
BatchStartStep(w) ==
    /\ UNCHANGED ages
    /\ pc[w] = "idle"
    /\ ~LogFull(w)
    /\ \E order \in Perms(InFolder("new")) :
          /\ SelectCandidates(order) # <<>>
          /\ queue' = [queue EXCEPT ![w] = SelectCandidates(order)]
    /\ pc' = [pc EXCEPT ![w] = "b_next"]
    /\ UNCHANGED <<files, attr, ctime, settings, created_slugs, sel, res,
                   session_context, session_file, executed>>

BatchStart(w) == BatchStartStep(w) /\ UNCHANGED ai_vars

\* _claim_directive, first rename: new -> processing; FileNotFoundError means the
\* claim fails and the loop continues with the next directive.
BatchClaimStep(w) ==
    /\ UNCHANGED ages
    /\ pc[w] = "b_next"
    /\ queue[w] # <<>>
    /\ LET d == Head(queue[w]) IN
       IF Exists("new", d)
       THEN /\ files' = Rename(files, "new", "processing", d)
            /\ ctime' = [ctime EXCEPT ![d] = Now]
            /\ sel' = [sel EXCEPT ![w] = d]
            /\ pc' = [pc EXCEPT ![w] = "b_claimed"]
       ELSE UNCHANGED <<files, ctime, sel, pc>>
    /\ queue' = [queue EXCEPT ![w] = Tail(@)]
    /\ UNCHANGED <<attr, settings, created_slugs, res, session_context, session_file, executed>>

BatchClaim(w) == BatchClaimStep(w) /\ UNCHANGED ai_vars

\* _claim_directive, second rename: processing -> new.
BatchClaimBackStep(w) ==
    /\ UNCHANGED ages
    /\ pc[w] = "b_claimed"
    /\ IF Exists("processing", sel[w])
       THEN /\ files' = Rename(files, "processing", "new", sel[w])
            /\ pc' = [pc EXCEPT ![w] = "b_exec"]
            /\ UNCHANGED sel
       ELSE /\ pc' = [pc EXCEPT ![w] = "b_next"]
            /\ sel' = [sel EXCEPT ![w] = None]
            /\ UNCHANGED files
    /\ UNCHANGED <<attr, ctime, settings, created_slugs, res, queue,
                   session_context, session_file, executed>>

BatchClaimBack(w) == BatchClaimBackStep(w) /\ UNCHANGED ai_vars

\* extract_task_content and ai_client.chat_completion; a read of a file that is
\* gone raises into the loop's except branch.
BatchExecuteStep(w) ==
    /\ UNCHANGED ages
    /\ pc[w] = "b_exec"
    /\ IF Exists("new", sel[w])
       THEN /\ \E o \in Outcomes : res' = [res EXCEPT ![w] = o]
            /\ executed' = [executed EXCEPT ![sel[w]] = @ \cup {w}]
            /\ pc' = [pc EXCEPT ![w] = "b_move"]
            /\ UNCHANGED sel
       ELSE /\ pc' = [pc EXCEPT ![w] = "b_except"]
            /\ UNCHANGED <<sel, res, executed>>
    /\ UNCHANGED <<files, attr, ctime, settings, created_slugs, queue,
                   session_context, session_file>>

BatchExecute(w) == BatchExecuteStep(w) /\ UNCHANGED ai_vars

\* shutil.move to success or to failed, by the success flag alone.
BatchMoveStep(w) ==
    /\ UNCHANGED ages
    /\ pc[w] = "b_move"
    /\ IF Exists("new", sel[w])
       THEN /\ files' = Rename(files, "new", IF res[w].success THEN "success" ELSE "failed", sel[w])
            /\ pc' = [pc EXCEPT ![w] = "b_log"]
            /\ UNCHANGED <<sel, res>>
       ELSE /\ pc' = [pc EXCEPT ![w] = "b_except"]
            /\ UNCHANGED <<files, sel, res>>
    /\ UNCHANGED <<attr, ctime, settings, created_slugs, queue,
                   session_context, session_file, executed>>

BatchMove(w) == BatchMoveStep(w) /\ UNCHANGED ai_vars

\* _update_session_context_with_directive with the path the file has just left:
\* the read finds no file and raises into the except branch; if a file is there
\* again, the summary is appended and the context saved.
BatchLogStep(w) ==
    /\ UNCHANGED ages
    /\ pc[w] = "b_log"
    /\ IF Exists("new", sel[w])
       THEN /\ session_context' = [session_context EXCEPT ![w] = Append(@, sel[w])]
            /\ session_file' = session_context'[w]
            /\ pc' = [pc EXCEPT ![w] = "b_next"]
            /\ sel' = [sel EXCEPT ![w] = None]
            /\ res' = [res EXCEPT ![w] = NoRes]
       ELSE /\ pc' = [pc EXCEPT ![w] = "b_except"]
            /\ UNCHANGED <<sel, res, session_context, session_file>>
    /\ UNCHANGED <<files, attr, ctime, settings, created_slugs, queue, executed>>

BatchLog(w) == BatchLogStep(w) /\ UNCHANGED ai_vars

\* The loop's except branch: the directive is moved to failed if its path exists.
BatchExceptStep(w) ==
    /\ UNCHANGED ages
    /\ pc[w] = "b_except"
    /\ files' = IF Exists("new", sel[w]) THEN Rename(files, "new", "failed", sel[w]) ELSE files
    /\ pc' = [pc EXCEPT ![w] = "b_next"]
    /\ sel' = [sel EXCEPT ![w] = None]
    /\ res' = [res EXCEPT ![w] = NoRes]
    /\ UNCHANGED <<attr, ctime, settings, created_slugs, queue,
                   session_context, session_file, executed>>

BatchExcept(w) == BatchExceptStep(w) /\ UNCHANGED ai_vars

\* After the loop: _save_session_context(self.session_context).
BatchFinishStep(w) ==
    /\ UNCHANGED ages
    /\ pc[w] = "b_next"
    /\ queue[w] = <<>>
    /\ session_file' = session_context[w]
    /\ pc' = [pc EXCEPT ![w] = "idle"]
    /\ UNCHANGED <<files, attr, ctime, settings, created_slugs, sel, res, queue,
                   session_context, executed>>

BatchFinish(w) == BatchFinishStep(w) /\ UNCHANGED ai_vars

Next ==
    \/ process_prompt_step
    \/ process_prompt_return
    \/ \E w \in Workers : SeqSelect(w)
    \/ \E w \in Workers : SeqNoWork(w)
    \/ \E w \in Workers : SeqExecute(w)
    \/ \E w \in Workers : SeqUpdateSession(w)
    \/ \E w \in Workers : SeqStatusRead(w)
    \/ \E w \in Workers : SeqStatusWrite(w)
    \/ \E w \in Workers : SeqMove(w)
    \/ \E w \in Workers : BatchStart(w)
    \/ \E w \in Workers : BatchClaim(w)
    \/ \E w \in Workers : BatchClaimBack(w)
    \/ \E w \in Workers : BatchExecute(w)
    \/ \E w \in Workers : BatchMove(w)
    \/ \E w \in Workers : BatchLog(w)
    \/ \E w \in Workers : BatchExcept(w)
    \/ \E w \in Workers : BatchFinish(w)

Spec == Init /\ [][Next]_vars

\* ---- ready selection over any store --------------------------------------------
\* The store find_next_directive may meet is any set of directive documents in
\* the lifecycle folders: the initial states below draw it from bounded sets and
\* one process runs a pass on it.
PriorityValues == {"high", "medium", "low", "HIGH", "urgent"}
Dangling == <<"file", None>>
RefsTo(c) == {<<"file", c>>, <<"slug", c>>, <<"todo", c>>}
AllRefs == UNION {RefsTo(c) : c \in Directives} \cup {Dangling}

HeaderStatus(f) == IF f = "new" THEN "pending" ELSE IF f = "failed" THEN "failed" ELSE "completed"

Profile(f, p, t, m, td, fm, prs) ==
    [folder |-> f, ctime |-> t,
     attr |-> [priority |-> p, fmt |-> fm, prereqs |-> prs, todo |-> td, meta |-> m,
               artifact |-> FALSE, stem |-> "directive", slug |-> IF td THEN "todo" ELSE "directive"]]

\* Documents that differ in priority and age, an old document of high priority
\* whose prerequisite is dangling, and one whose header does not parse.
OrderingProfiles ==
    {Profile("new", p, t, TRUE, FALSE, "section", <<>>) : p \in PriorityValues, t \in 0..MaxCtime}
    \cup {Profile("new", "high", 0, TRUE, FALSE, "inline", <<Dangling>>)}
    \cup {Profile("new", "high", 0, FALSE, FALSE, "section", <<>>)}
    \cup {Profile(f, "medium", 0, TRUE, FALSE, "section", <<>>) : f \in TerminalFolders}

\* Documents that differ in the prerequisites they record and in the way they
\* record them; finished documents differ in what their header offers to match.
PrereqProfiles ==
    {Profile("new", "medium", 0, TRUE, FALSE, "section", <<>>)}
    \cup {Profile("new", "medium", 0, TRUE, FALSE, "inline", <<r>>) : r \in AllRefs}
    \cup {Profile("new", "medium", 0, TRUE, FALSE, "inline", <<<<"file", c>>, Dangling>>) : c \in Directives}
    \cup {Profile("new", "medium", 0, TRUE, FALSE, "header", <<<<"file", c>>, Dangling>>) : c \in Directives}
    \cup {Profile("new", "medium", 0, TRUE, FALSE, "section", <<<<"file", c>>>>) : c \in Directives}
    \cup {Profile(f, "medium", 0, m[1], m[2], "section", <<>>) :
            f \in TerminalFolders, m \in {<<TRUE, TRUE>>, <<TRUE, FALSE>>, <<FALSE, FALSE>>}}

StoreOf(prof) ==
    [f \in Folders |-> [d \in Files |->
        IF d \in DOMAIN prof /\ prof[d].folder = f THEN HeaderStatus(f) ELSE Absent]]

InitSelect ==
    /\ NoCalls
    /\ \E prof \in [Directives -> OrderingProfiles] \cup [Directives -> PrereqProfiles] :
          /\ \A d \in Directives : \A i \in DOMAIN prof[d].attr.prereqs :
                prof[d].attr.prereqs[i] \notin RefsTo(d)
          /\ files = StoreOf(prof)
          /\ attr = [d \in Files |-> IF d \in Directives THEN prof[d].attr ELSE NoAttr]
          /\ ctime = [d \in Files |-> IF d \in Directives THEN prof[d].ctime ELSE 0]
    /\ settings = [exemplar_enabled |-> TRUE, exemplar_threshold_seconds |-> DefaultExemplarThreshold]
    /\ created_slugs = <<>>
    /\ pc = [w \in Workers |-> "idle"]
    /\ sel = [w \in Workers |-> None]
    /\ ages = [w \in Workers |-> NoAges]
    /\ res = [w \in Workers |-> NoRes]
    /\ queue = [w \in Workers |-> <<>>]
    /\ session_context = [w \in Workers |-> <<>>]
    /\ session_file = <<>>
    /\ executed = [d \in Files |-> {}]

NextSelect ==
    \/ SeqSelect(1)
    \/ SeqNoWork(1)

SpecSelect == InitSelect /\ [][NextSelect]_vars

\* ---- run: passes until one does no work, output artifacts included ---------------
\* update_output_file looks through new/*output*.md for a file whose name holds
\* the first dash-separated word of the directive's file name.
OutputMatches(d) ==
    {o \in InFolder("new") : attr[o].artifact /\ attr[o].stem = attr[d].stem}

FreeArtifacts == {a \in Artifacts : attr[a] = NoAttr}

\* update_output_file: the first matching output file the enumeration gives is
\* rewritten in place (its placeholders are filled in, so its header parses from
\* then on) and stays where it is, since the directive is still in new; with no
\* match _create_output_file_for_directive writes <slug>-output_<time>.md, with a
\* header, next to the directive, that is into new.
update_output_file(d) ==
    IF OutputMatches(d) # {}
    THEN \E o \in OutputMatches(d) :
            /\ files' = WriteStatus(files, "new", o, "reported")
            /\ attr' = [attr EXCEPT ![o].meta = TRUE]
            /\ ctime' = [ctime EXCEPT ![o] = Now]
    ELSE IF ~attr[d].meta
    THEN UNCHANGED <<files, attr, ctime>>
    ELSE /\ FreeArtifacts # {}
         /\ LET o == CHOOSE a \in FreeArtifacts : \A b \in FreeArtifacts : a <= b IN
            /\ files' = WriteStatus(files, "new", o, "reported")
            /\ attr' = [attr EXCEPT ![o] =
                          [priority |-> attr[d].priority, fmt |-> "section", prereqs |-> <<>>,
                           todo |-> FALSE, meta |-> TRUE,
                           artifact |-> TRUE, stem |-> attr[d].slug, slug |-> attr[d].slug]]
            /\ ctime' = [ctime EXCEPT ![o] = Now]

\* execute_directive followed by update_output_file, in a store no other worker
\* touches.
RunExecute(w) ==
    /\ pc[w] = "selected"
    /\ Exists("new", sel[w])
    /\ \E o \in Outcomes : res' = [res EXCEPT ![w] = o]
    /\ executed' = [executed EXCEPT ![sel[w]] = @ \cup {w}]
    /\ update_output_file(sel[w])
    /\ pc' = [pc EXCEPT ![w] = "executed"]
    /\ ages' = [ages EXCEPT ![w] = NoAges]
    /\ UNCHANGED <<settings, created_slugs, sel, queue, session_context, session_file>>
    /\ UNCHANGED ai_vars

\* The documents a run may find: written by the decomposer or by the bridge,
\* hand-written with a prerequisite nothing matches, with a header that does not
\* parse, or finished; and the placeholder artifact the decomposer writes, whose
\* header does not parse as long as its {{...}} placeholders stand.
RunProfiles ==
    {Profile("new", "high", 0, TRUE, FALSE, "section", <<>>),
     Profile("new", "medium", MaxCtime, TRUE, TRUE, "section", <<>>)}
    \cup {Profile("new", "high", 0, TRUE, FALSE, "inline", <<Dangling>>)}
    \cup {Profile("new", "high", 0, FALSE, FALSE, "section", <<>>)}
    \cup {Profile("success", "medium", 0, TRUE, FALSE, "section", <<>>)}

Placeholder ==
    [priority |-> "medium", fmt |-> "section", prereqs |-> <<>>, todo |-> FALSE, meta |-> FALSE,
     artifact |-> TRUE, stem |-> "directive", slug |-> "directive"]

InitRun ==
    /\ NoCalls
    /\ \E prof \in [Directives -> RunProfiles] : \E placeholder \in BOOLEAN :
          LET first == CHOOSE a \in Artifacts : \A b \in Artifacts : a <= b IN
          /\ files = [StoreOf(prof) EXCEPT !["new"][first] = IF placeholder THEN "pending" ELSE Absent]
          /\ attr = [d \in Files |-> IF d \in Directives THEN prof[d].attr
                                     ELSE IF placeholder /\ d = first THEN Placeholder ELSE NoAttr]
          /\ ctime = [d \in Files |-> IF d \in Directives THEN prof[d].ctime ELSE 0]
    /\ settings = [exemplar_enabled |-> TRUE, exemplar_threshold_seconds |-> DefaultExemplarThreshold]
    /\ created_slugs = <<>>
    /\ pc = [w \in Workers |-> "idle"]
    /\ sel = [w \in Workers |-> None]
    /\ ages = [w \in Workers |-> NoAges]
    /\ res = [w \in Workers |-> NoRes]
    /\ queue = [w \in Workers |-> <<>>]
    /\ session_context = [w \in Workers |-> <<>>]
    /\ session_file = <<>>
    /\ executed = [d \in Files |-> {}]

\* run: process_single_directive again and again until it returns False.
NextRun ==
    \/ SelectStep(1)
    \/ SeqNoWork(1)
    \/ RunExecute(1)
    \/ SeqUpdateSession(1)
    \/ SeqStatusRead(1)
    \/ SeqStatusWrite(1)
    \/ SeqMove(1)

\* The process is scheduled as long as it has a step to take.
SpecRun == InitRun /\ [][NextRun]_vars /\ WF_vars(NextRun)

\* ---- runSingle: one pass per process, started again and again -------------------
\* main with --single: a new process builds its agent, which loads the session
\* file, and makes one pass.
SingleAgain(w) ==
    /\ pc[w] = "done"
    /\ pc' = [pc EXCEPT ![w] = "idle"]
    /\ session_context' = [session_context EXCEPT ![w] = session_file]
    /\ UNCHANGED <<files, attr, ctime, settings, created_slugs, sel, ages, res, queue,
                   session_file, executed>>
    /\ UNCHANGED ai_vars

NextSingle == NextRun \/ SingleAgain(1)

SpecSingle == InitRun /\ [][NextSingle]_vars

\* ---- a pass whose file and session operations may fail ---------------------------
\* todo_bridge.sync_todo_status raises (its session file does not load or cannot
\* be written): nothing catches it in _update_session_context_with_directive,
\* process_single_directive or run.
BridgeSyncFails(w) ==
    /\ pc[w] = "executed"
    /\ Exists("new", sel[w])
    /\ attr[sel[w]].todo
    /\ pc' = [pc EXCEPT ![w] = "crashed"]
    /\ UNCHANGED <<files, attr, ctime, settings, created_slugs, sel, ages, res, queue,
                   session_context, session_file, executed>>
    /\ UNCHANGED ai_vars

\* _save_session_context raises in open or json.dump, after the summary was
\* appended to the context in memory.
SessionSaveFails(w) ==
    /\ pc[w] = "executed"
    /\ Exists("new", sel[w])
    /\ session_context' = [session_context EXCEPT ![w] = Append(@, sel[w])]
    /\ pc' = [pc EXCEPT ![w] = "crashed"]
    /\ UNCHANGED <<files, attr, ctime, settings, created_slugs, sel, ages, res, queue,
                   session_file, executed>>
    /\ UNCHANGED ai_vars

\* _update_directive_status cannot read or write the file: the exception is
\* caught, a warning printed, and move_directive goes on to the move.
StatusRewriteFails(w) ==
    /\ pc[w] \in {"logged", "rewriting"}
    /\ pc' = [pc EXCEPT ![w] = "moving"]
    /\ UNCHANGED <<files, attr, ctime, settings, created_slugs, sel, ages, res, queue,
                   session_context, session_file, executed>>
    /\ UNCHANGED ai_vars

\* shutil.move raises (the destination cannot be written): nothing catches it.
MoveFails(w) ==
    /\ pc[w] = "moving"
    /\ Exists("new", sel[w])
    /\ pc' = [pc EXCEPT ![w] = "crashed"]
    /\ UNCHANGED <<files, attr, ctime, settings, created_slugs, sel, ages, res, queue,
                   session_context, session_file, executed>>
    /\ UNCHANGED ai_vars

NextFault ==
    \/ NextRun
    \/ BridgeSyncFails(1)
    \/ SessionSaveFails(1)
    \/ StatusRewriteFails(1)
    \/ MoveFails(1)

SpecFault == InitRun /\ [][NextFault]_vars

\* ---- a worker that is interrupted, and started again -----------------------------
\* The positions of a pass at which a directive has been chosen and its
\* relocation has not happened yet.
MidPass == {"selected", "executed", "logged", "rewriting", "moving",
            "b_claimed", "b_exec", "b_move"}

\* The process of the worker is killed (SIGKILL, power loss): no handler runs.
Interrupt(w) ==
    /\ pc[w] \in MidPass
    /\ pc' = [pc EXCEPT ![w] = "interrupted"]
    /\ UNCHANGED <<files, attr, ctime, settings, created_slugs, sel, ages, res, queue,
                   session_context, session_file, executed>>
    /\ UNCHANGED ai_vars

\* The worker is started again: a new EngageAgent, which loads the session file.
Restart(w) ==
    /\ pc[w] = "interrupted"
    /\ pc' = [pc EXCEPT ![w] = "idle"]
    /\ sel' = [sel EXCEPT ![w] = None]
    /\ ages' = [ages EXCEPT ![w] = NoAges]
    /\ res' = [res EXCEPT ![w] = NoRes]
    /\ queue' = [queue EXCEPT ![w] = <<>>]
    /\ session_context' = [session_context EXCEPT ![w] = session_file]
    /\ UNCHANGED <<files, attr, ctime, settings, created_slugs, session_file, executed>>
    /\ UNCHANGED ai_vars

NextInterrupt ==
    \/ SeqSelect(1)
    \/ SeqNoWork(1)
    \/ SeqExecute(1)
    \/ SeqUpdateSession(1)
    \/ SeqStatusRead(1)
    \/ SeqStatusWrite(1)
    \/ SeqMove(1)
    \/ BatchStart(1)
    \/ BatchClaim(1)
    \/ BatchClaimBack(1)
    \/ BatchExecute(1)
    \/ BatchMove(1)
    \/ BatchLog(1)
    \/ BatchExcept(1)
    \/ BatchFinish(1)
    \/ Interrupt(1)
    \/ Restart(1)

SpecInterrupt == InitSelect /\ [][NextInterrupt]_vars

\* ---- chat_completion: the retry loop of the provider client ----------------------
\* What a posted request may come back with: a 200 with a body of the expected
\* shape, an HTTP status, no response at all (connection error or timeout), a body
\* that is not JSON, a JSON body without the expected keys.
Replies == {"ok", "429", "500", "401", "403", "400", "timeout", "bad_json", "missing_key"}

\* _claude_completion / _openai_completion on one answer: "return" the success
\* record, "raise" a requests RequestException (the explicit raises for 429, 401
\* and 500, raise_for_status for every other 4xx/5xx, and what requests.post
\* itself raises), or "fail": any other exception is caught there and turned into
\* a failure record. response.json() on a body that is not JSON raises an error
\* that is a RequestException in requests 2.27 and later and a plain ValueError
\* before; the repository pins no version.
completion_always_fails(reply) == IF reply = "ok" THEN {"return"} ELSE {"fail"}

completion(reply) ==
    CASE reply = "ok" -> {"return"}
      [] reply \in {"429", "500", "401", "403", "400", "timeout"} -> {"raise"}
      [] reply = "bad_json" -> {"raise", "fail"}
      [] OTHER -> {"fail"}

\* chat_completion is called with retry_attempts and retry_delay.
InitRetry ==
    /\ NoCounts
    /\ NoWaiting
    /\ NoRewrite
    /\ NoArtifacts
    /\ NoSettings
    /\ NoGateway
    /\ NoSession
    /\ NoSave
    /\ NoCost
    /\ NoDecomposition
    /\ NoBridge
    /\ files = EmptyStore
    /\ attr = [d \in Files |-> NoAttr]
    /\ ctime = [d \in Files |-> 0]
    /\ settings = [exemplar_enabled |-> TRUE, exemplar_threshold_seconds |-> DefaultExemplarThreshold]
    /\ created_slugs = <<>>
    /\ pc = [w \in Workers |-> "idle"]
    /\ sel = [w \in Workers |-> None]
    /\ ages = [w \in Workers |-> NoAges]
    /\ res = [w \in Workers |-> NoRes]
    /\ queue = [w \in Workers |-> <<>>]
    /\ session_context = [w \in Workers |-> <<>>]
    /\ session_file = <<>>
    /\ executed = [d \in Files |-> {}]
    /\ \E n \in 1..MaxAttempts : \E d \in 1..MaxDelay :
          /\ call = [retry_attempts |-> n, retry_delay |-> d]
          /\ retry_delay = d
    /\ chat_pc = "attempt"
    /\ attempt = 0
    /\ calls = <<>>
    /\ sleeps = <<>>
    /\ result = NoResult
    /\ batch_pc = "idle"
    /\ requests = <<>>
    /\ batches = <<>>
    /\ batch_jobs = <<>>
    /\ active_batches = <<>>
    /\ job_status = <<>>
    /\ retrieval = <<>>
    /\ all_results = {}
    /\ polls = 0

\* One turn of the for loop: the request is posted; a success or a failure record
\* is returned as it is, a RequestException is caught by chat_completion, which
\* goes on to sleep if an attempt is left and returns the failure otherwise.
ChatAttempt ==
    /\ chat_pc = "attempt"
    /\ \E reply \in Replies : \E outcome \in completion(reply) :
          /\ calls' = Append(calls, reply)
          /\ CASE outcome = "return" ->
                    /\ result' = [success |-> TRUE, error |-> "", attempts |-> 0, last |-> ""]
                    /\ chat_pc' = "returned"
               [] outcome = "fail" ->
                    /\ result' = [success |-> FALSE, error |-> "unexpected", attempts |-> 0, last |-> reply]
                    /\ chat_pc' = "returned"
               [] OTHER ->
                    IF attempt < call.retry_attempts - 1
                    THEN /\ chat_pc' = "sleep"
                         /\ UNCHANGED result
                    ELSE /\ result' = [success |-> FALSE, error |-> "all_attempts_failed",
                                       attempts |-> call.retry_attempts, last |-> reply]
                         /\ chat_pc' = "returned"
    /\ UNCHANGED <<call, attempt, retry_delay, sleeps>>
    /\ UNCHANGED batch_vars
    /\ UNCHANGED lifecycle_vars
    /\ UNCHANGED count_vars
    /\ UNCHANGED wait_vars
    /\ UNCHANGED status_vars
    /\ UNCHANGED artifact_vars
    /\ UNCHANGED settings_vars
    /\ UNCHANGED gateway_vars
    /\ UNCHANGED session_vars
    /\ UNCHANGED save_vars
    /\ UNCHANGED decomp_vars
    /\ UNCHANGED bridge_vars
    /\ UNCHANGED cost_vars

\* A sleep that does not double the delay.
ChatSleep_constant ==
    /\ chat_pc = "sleep"
    /\ sleeps' = Append(sleeps, retry_delay)
    /\ attempt' = attempt + 1
    /\ chat_pc' = "attempt"
    /\ UNCHANGED <<call, retry_delay, calls, result>>
    /\ UNCHANGED batch_vars
    /\ UNCHANGED lifecycle_vars
    /\ UNCHANGED count_vars
    /\ UNCHANGED wait_vars
    /\ UNCHANGED status_vars
    /\ UNCHANGED artifact_vars
    /\ UNCHANGED settings_vars
    /\ UNCHANGED gateway_vars
    /\ UNCHANGED session_vars
    /\ UNCHANGED save_vars
    /\ UNCHANGED decomp_vars
    /\ UNCHANGED bridge_vars
    /\ UNCHANGED cost_vars

\* time.sleep(retry_delay); retry_delay *= 2; the loop goes to its next index.
ChatSleep ==
    /\ chat_pc = "sleep"
    /\ sleeps' = Append(sleeps, retry_delay)
    /\ retry_delay' = retry_delay * 2
    /\ attempt' = attempt + 1
    /\ chat_pc' = "attempt"
    /\ UNCHANGED <<call, calls, result>>
    /\ UNCHANGED batch_vars
    /\ UNCHANGED lifecycle_vars
    /\ UNCHANGED count_vars
    /\ UNCHANGED wait_vars
    /\ UNCHANGED status_vars
    /\ UNCHANGED artifact_vars
    /\ UNCHANGED settings_vars
    /\ UNCHANGED gateway_vars
    /\ UNCHANGED session_vars
    /\ UNCHANGED save_vars
    /\ UNCHANGED decomp_vars
    /\ UNCHANGED bridge_vars
    /\ UNCHANGED cost_vars

NextRetry == ChatAttempt \/ ChatSleep

SpecRetry == InitRetry /\ [][NextRetry]_vars

\* ---- process_directives_in_batches: grouping requests into batch jobs -----------
\* Platform and model names, as the pieces they are made of, so that the key
\* f"{platform}_{model}" of two different pairs can be the same string.
Platforms == {<<"claude">>, <<"openai">>, <<"openai", "_", "azure">>}
Models == {<<"gpt">>, <<"azure", "_", "gpt">>}
BatchRequests == [platform : Platforms, model : Models]

\* The largest batch of each platform (10000 and 50000 in the source), scaled
\* down so that a group of the model is split.
max_anthropic_batch_size == 2
max_openai_batch_size == 3

RequestKey(request) == request.platform \o <<"_">> \o request.model

\* The keys of the dict groups, in the order of their insertion.
RECURSIVE GroupKeys(_)
GroupKeys(reqs) ==
    IF reqs = <<>> THEN <<>>
    ELSE LET before == GroupKeys(SubSeq(reqs, 1, Len(reqs) - 1))
             key == RequestKey(reqs[Len(reqs)]) IN
         IF \E i \in DOMAIN before : before[i] = key THEN before ELSE Append(before, key)

KeyGroup(reqs, key) ==
    LET Has(i) == RequestKey(reqs[i]) = key
        RECURSIVE Pick(_)
        Pick(n) == IF n = 0 THEN <<>>
                   ELSE IF Has(n) THEN Append(Pick(n - 1), reqs[n]) ELSE Pick(n - 1) IN
    Pick(Len(reqs))

\* A grouping that never splits: the whole group is one batch.
ChunksUnsplit(group, max_size) == <<group>>

\* group[i:i + max_size] for i in range(0, len(group), max_size)
RECURSIVE Chunks(_, _)
Chunks(group, max_size) ==
    IF group = <<>> THEN <<>>
    ELSE IF Len(group) <= max_size THEN <<group>>
    ELSE <<SubSeq(group, 1, max_size)>> \o Chunks(SubSeq(group, max_size + 1, Len(group)), max_size)

RECURSIVE Flatten(_)
Flatten(seqs) == IF seqs = <<>> THEN <<>> ELSE Head(seqs) \o Flatten(Tail(seqs))

group_requests_for_batching(reqs) ==
    LET keys == GroupKeys(reqs)
        MaxSize(group) == IF group[1].platform = <<"claude">> THEN max_anthropic_batch_size
                          ELSE max_openai_batch_size IN
    Flatten([i \in DOMAIN keys |-> Chunks(KeyGroup(reqs, keys[i]), MaxSize(KeyGroup(reqs, keys[i])))])

ValueError == [platform |-> <<>>, model |-> <<>>, requests |-> <<>>]

\* A create_batch_job that takes platform and model of the first request without
\* looking at the others.
create_batch_job_unchecked(reqs) ==
    [platform |-> reqs[1].platform, model |-> reqs[1].model, requests |-> reqs]

\* create_batch_job: ValueError for an empty list and for a list whose requests do
\* not all have the platform and the model of the first.
create_batch_job(reqs) ==
    IF reqs = <<>> THEN ValueError
    ELSE IF \E i \in DOMAIN reqs : reqs[i].platform # reqs[1].platform \/ reqs[i].model # reqs[1].model
    THEN ValueError
    ELSE [platform |-> reqs[1].platform, model |-> reqs[1].model, requests |-> reqs]

\* The BatchRequest built for the i-th directive file of new.
Request(i, pm) == [id |-> i, directive_path |-> i, platform |-> pm.platform, model |-> pm.model]

RequestedFile == Profile("new", "medium", 0, TRUE, FALSE, "section", <<>>)

InitBatch ==
    /\ NoCounts
    /\ NoWaiting
    /\ NoRewrite
    /\ NoArtifacts
    /\ NoSettings
    /\ NoGateway
    /\ NoSession
    /\ NoSave
    /\ NoCost
    /\ NoDecomposition
    /\ NoBridge
    /\ \E n \in 0..MaxRequests : \E pm \in [1..n -> BatchRequests] :
          requests = [i \in 1..n |-> Request(i, pm[i])]
    /\ files = StoreOf([i \in 1..Len(requests) |-> RequestedFile])
    /\ attr = [d \in Files |-> IF d \in 1..Len(requests) THEN RequestedFile.attr ELSE NoAttr]
    /\ ctime = [d \in Files |-> 0]
    /\ settings = [exemplar_enabled |-> TRUE, exemplar_threshold_seconds |-> DefaultExemplarThreshold]
    /\ created_slugs = <<>>
    /\ pc = [w \in Workers |-> "idle"]
    /\ sel = [w \in Workers |-> None]
    /\ ages = [w \in Workers |-> NoAges]
    /\ res = [w \in Workers |-> NoRes]
    /\ queue = [w \in Workers |-> <<>>]
    /\ session_context = [w \in Workers |-> <<>>]
    /\ session_file = <<>>
    /\ executed = [d \in Files |-> {}]
    /\ chat_pc = "idle"
    /\ call = [retry_attempts |-> 0, retry_delay |-> 0]
    /\ attempt = 0
    /\ retry_delay = 0
    /\ calls = <<>>
    /\ sleeps = <<>>
    /\ result = NoResult
    /\ batch_pc = "called"
    /\ batches = <<>>
    /\ batch_jobs = <<>>
    /\ active_batches = <<>>
    /\ job_status = <<>>
    /\ retrieval = <<>>
    /\ all_results = {}
    /\ polls = 0

\* The call returns at once for no requests and groups them otherwise.
GroupRequests ==
    /\ batch_pc = "called"
    /\ IF requests = <<>>
       THEN /\ batch_pc' = "returned"
            /\ UNCHANGED batches
       ELSE /\ batches' = group_requests_for_batching(requests)
            /\ batch_pc' = "creating"
    /\ UNCHANGED <<requests, batch_jobs, active_batches, job_status, retrieval, all_results, polls>>
    /\ UNCHANGED chat_vars
    /\ UNCHANGED lifecycle_vars
    /\ UNCHANGED count_vars
    /\ UNCHANGED wait_vars
    /\ UNCHANGED status_vars
    /\ UNCHANGED artifact_vars
    /\ UNCHANGED settings_vars
    /\ UNCHANGED gateway_vars
    /\ UNCHANGED session_vars
    /\ UNCHANGED save_vars
    /\ UNCHANGED decomp_vars
    /\ UNCHANGED bridge_vars
    /\ UNCHANGED cost_vars

\* One turn of the loop over batches: create_batch_job, whose ValueError ends the
\* call, then submit_batch_job, which raises ValueError for a platform that is
\* neither claude nor openai and otherwise posts the batch: the provider accepts
\* it (status submitted) or the post fails (status failed, logged, not waited for).
CreateAndSubmit ==
    /\ batch_pc = "creating"
    /\ batches # <<>>
    /\ LET batch_job == create_batch_job(Head(batches)) IN
       IF batch_job = ValueError
       THEN /\ batch_pc' = "raised"
            /\ UNCHANGED <<batches, batch_jobs, active_batches, job_status, retrieval>>
       ELSE /\ batch_jobs' = Append(batch_jobs, batch_job)
            /\ retrieval' = Append(retrieval, "none")
            /\ IF batch_job.platform \notin {<<"claude">>, <<"openai">>}
               THEN /\ batch_pc' = "raised"
                    /\ job_status' = Append(job_status, "pending")
                    /\ UNCHANGED <<batches, active_batches>>
               ELSE /\ \E accepted \in BOOLEAN :
                          /\ active_batches' = IF accepted THEN Append(active_batches, batch_job)
                                               ELSE active_batches
                          /\ job_status' = Append(job_status, IF accepted THEN "submitted" ELSE "failed")
                    /\ batches' = Tail(batches)
                    /\ UNCHANGED batch_pc
    /\ UNCHANGED <<requests, all_results, polls>>
    /\ UNCHANGED chat_vars
    /\ UNCHANGED lifecycle_vars
    /\ UNCHANGED count_vars
    /\ UNCHANGED wait_vars
    /\ UNCHANGED status_vars
    /\ UNCHANGED artifact_vars
    /\ UNCHANGED settings_vars
    /\ UNCHANGED gateway_vars
    /\ UNCHANGED session_vars
    /\ UNCHANGED save_vars
    /\ UNCHANGED decomp_vars
    /\ UNCHANGED bridge_vars
    /\ UNCHANGED cost_vars

\* The list handed to wait_for_batch_completion: the jobs whose submission
\* returned True, in the order of their creation.
RECURSIVE SubmittedJobs(_)
SubmittedJobs(n) ==
    IF n = 0 THEN <<>>
    ELSE IF job_status[n] = "submitted" THEN Append(SubmittedJobs(n - 1), n)
    ELSE SubmittedJobs(n - 1)

\* Every group has been turned into a job: with no job submitted the call returns
\* nothing, otherwise it enters wait_for_batch_completion.
StartWaiting ==
    /\ batch_pc = "creating"
    /\ batches = <<>>
    /\ batch_pc' = IF active_batches = <<>> THEN "returned" ELSE "waiting"
    /\ wait_jobs' = SubmittedJobs(Len(batch_jobs))
    /\ UNCHANGED <<completed_jobs, repolled>>
    /\ UNCHANGED <<requests, batches, batch_jobs, active_batches, job_status, retrieval,
                   all_results, polls>>
    /\ UNCHANGED chat_vars
    /\ UNCHANGED lifecycle_vars
    /\ UNCHANGED count_vars
    /\ UNCHANGED status_vars
    /\ UNCHANGED artifact_vars
    /\ UNCHANGED settings_vars
    /\ UNCHANGED gateway_vars
    /\ UNCHANGED session_vars
    /\ UNCHANGED save_vars
    /\ UNCHANGED decomp_vars
    /\ UNCHANGED bridge_vars
    /\ UNCHANGED cost_vars

\* The jobs wait_for_batch_completion still polls: the elements of its list.
RemainingJobs == {wait_jobs[i] : i \in DOMAIN wait_jobs}

\* check_batch_status returns True for an answer that is terminal.
ReportedTerminal(answer, j) == answer[j] \in {"completed", "failed"}

\* A round that keeps every job in the list, whatever check_batch_status returned.
remaining_jobs_all(jobs, answer) == jobs

\* remaining_jobs of one round: the jobs for which check_batch_status returned
\* False, in the order of the list.
remaining_jobs(jobs, answer) == SelectSeq(jobs, LAMBDA j : ~ReportedTerminal(answer, j))

\* The jobs a round appends to completed_jobs: those for which check_batch_status
\* returned True, in the order of the list.
newly_completed(jobs, answer) == SelectSeq(jobs, LAMBDA j : ReportedTerminal(answer, j))

\* One round of the while loop: check_batch_status for every job that remains.
\* The provider reports it completed, failed (or expired, cancelled), still in
\* progress, or the status request itself fails, which leaves the status as it is.
PollBatches ==
    /\ batch_pc = "waiting"
    /\ RemainingJobs # {}
    /\ polls < MaxPolls
    /\ \E answer \in [RemainingJobs -> {"completed", "failed", "processing", "error"}] :
          /\ job_status' = [j \in DOMAIN job_status |->
                            IF j \in RemainingJobs /\ answer[j] # "error" THEN answer[j]
                            ELSE job_status[j]]
          /\ wait_jobs' = remaining_jobs(wait_jobs, answer)
          /\ completed_jobs' = completed_jobs \o newly_completed(wait_jobs, answer)
    /\ repolled' = repolled \cup {j \in RemainingJobs : job_status[j] \in {"completed", "failed"}}
    /\ polls' = polls + 1
    /\ UNCHANGED <<batch_pc, requests, batches, batch_jobs, active_batches, retrieval, all_results>>
    /\ UNCHANGED chat_vars
    /\ UNCHANGED lifecycle_vars
    /\ UNCHANGED count_vars
    /\ UNCHANGED status_vars
    /\ UNCHANGED artifact_vars
    /\ UNCHANGED settings_vars
    /\ UNCHANGED gateway_vars
    /\ UNCHANGED session_vars
    /\ UNCHANGED save_vars
    /\ UNCHANGED decomp_vars
    /\ UNCHANGED bridge_vars
    /\ UNCHANGED cost_vars

\* The loop ends, because no job remains or because max_wait has passed (which
\* any round can take it to); the jobs that remain get the status timeout.
\* Then process_batch_results for the jobs whose status is completed: the
\* results of a job are fetched and give each of its requests an outcome, or
\* (openai) the download fails and the job contributes nothing; the other jobs
\* are logged.
CollectResults ==
    /\ batch_pc = "waiting"
    /\ RemainingJobs = {} \/ polls >= 1
    /\ job_status' = [j \in DOMAIN job_status |->
                        IF j \in RemainingJobs THEN "timeout" ELSE job_status[j]]
    /\ LET completed == {j \in DOMAIN job_status : job_status[j] = "completed"} IN
       \E fetch \in [completed -> {"success", "failure", "download_error"}] :
          /\ \A j \in completed : fetch[j] = "download_error" => batch_jobs[j].platform = <<"openai">>
          /\ retrieval' = [j \in DOMAIN retrieval |->
                              IF j \notin completed THEN retrieval[j]
                              ELSE IF fetch[j] = "download_error" THEN "failed" ELSE "fetched"]
          /\ all_results' = UNION {{<<batch_jobs[j].requests[i].id, fetch[j]>> :
                                        i \in DOMAIN batch_jobs[j].requests} :
                                    j \in {k \in completed : fetch[k] # "download_error"}}
    /\ completed_jobs' = completed_jobs \o wait_jobs
    /\ batch_pc' = "returned"
    /\ UNCHANGED <<requests, batches, batch_jobs, active_batches, polls, wait_jobs, repolled>>
    /\ UNCHANGED chat_vars
    /\ UNCHANGED lifecycle_vars
    /\ UNCHANGED count_vars
    /\ UNCHANGED status_vars
    /\ UNCHANGED artifact_vars
    /\ UNCHANGED settings_vars
    /\ UNCHANGED gateway_vars
    /\ UNCHANGED session_vars
    /\ UNCHANGED save_vars
    /\ UNCHANGED decomp_vars
    /\ UNCHANGED bridge_vars
    /\ UNCHANGED cost_vars

NextBatch == GroupRequests \/ CreateAndSubmit \/ StartWaiting \/ PollBatches \/ CollectResults

SpecBatch == InitBatch /\ [][NextBatch]_vars

\* ---- properties of the lifecycle (Spec) ------------------------------------------
\* No worker is in the middle of a pass: each is between passes or has returned.
Quiet == \A w \in Workers : pc[w] \in {"idle", "done"}

\* C1: whenever no worker is in the middle of a pass, every directive file is in
\* exactly one of new, success, failed, slow, exemplar, and none is left in the
\* processing staging directory.
C1_ExactlyOneFolder ==
    Quiet => \A d \in Written :
                /\ Cardinality({f \in LifecycleFolders : files[f][d] # Absent}) = 1
                /\ files["processing"][d] = Absent

\* C2: in every state a directive in success, slow or exemplar has header status
\* completed and one in failed has header status failed; between passes a
\* directive in new has header status pending.
C2_StatusMatchesFolder ==
    /\ \A d \in Directives :
          /\ \A f \in {"success", "slow", "exemplar"} :
                files[f][d] # Absent => files[f][d] = "completed"
          /\ files["failed"][d] # Absent => files["failed"][d] = "failed"
    /\ Quiet => \A d \in Directives : files["new"][d] # Absent => files["new"][d] = "pending"

\* A recorded prerequisite names directive c by file name, slug or to-do id.
C3Names(prereq, c) == prereq \in {<<"file", c>>, <<"slug", c>>, <<"todo", c>>}

\* C3: a directive that has been dispatched to the provider has every prerequisite
\* its document records matched by a directive in a terminal folder.
C3_NoDispatchBeforePrerequisites ==
    \A d \in Directives :
        executed[d] # {} =>
            \A i \in DOMAIN attr[d].prereqs :
                \E c \in Directives : \E f \in TerminalFolders :
                    C3Names(attr[d].prereqs[i], c) /\ files[f][c] # Absent

\* C4: no directive is dispatched to the provider by more than one worker.
C4_AtMostOneWorker == \A d \in Directives : Cardinality(executed[d]) <= 1

\* C5: when a worker moves a directive file to its terminal folder, in the
\* sequential pass or in the batch run, the directive's summary is already in the
\* worker's completed_directives log.
C5_LoggedBeforeMove ==
    [][\A w \in Workers :
          (/\ pc[w] \in {"moving", "b_move"}
           /\ pc'[w] \in {"idle", "b_log"})
          => \E i \in DOMAIN session_context[w] : session_context[w][i] = sel[w]]_vars

\* C6: between passes, every directive in a terminal folder has an entry in the
\* persisted completion log.
C6_TerminalDirectivesLogged ==
    Quiet => \A d \in Directives :
                (\E f \in TerminalFolders : files[f][d] # Absent)
                => \E i \in DOMAIN session_file : session_file[i] = d

\* The folder the outcome and the duration call for.
C7Folder(r) ==
    IF ~r.success THEN "failed"
    ELSE IF settings.exemplar_enabled /\ r.duration <= settings.exemplar_threshold_seconds
         THEN "exemplar"
         ELSE IF r.duration > SlowThreshold THEN "slow" ELSE "success"

\* C7: a worker that relocates the directive it has processed, in the sequential
\* pass or in the batch run, puts it in the folder its outcome and duration call for.
C7_RelocatedByOutcome ==
    [][\A w \in Workers :
          (/\ pc[w] \in {"moving", "b_move"}
           /\ pc'[w] \in {"idle", "b_log"})
          => files'[C7Folder(res[w])][sel[w]] # Absent]_vars

\* ---- properties of ready selection (SpecSelect) -------------------------------------
\* The rank of a priority value, whatever its letter case.
C8Rank(p) ==
    IF p \in {"high", "HIGH"} THEN 3 ELSE IF p = "medium" THEN 2 ELSE 1

\* The directives of new that are ready.
C8Ready == {d \in Directives : files["new"][d] # Absent /\ IsCandidate(d)}

\* (rank, age) of a strictly smaller than (rank, age) of b, with the ages the
\* scan of worker 1 took.
C8Below(a, b) ==
    \/ C8Rank(attr[a].priority) < C8Rank(attr[b].priority)
    \/ /\ C8Rank(attr[a].priority) = C8Rank(attr[b].priority)
       /\ ages[1][a] < ages[1][b]

\* C8: find_next_directive returns a ready directive whose (rank, age) no ready
\* directive exceeds, and returns nothing exactly when no directive is ready.
C8_SelectsMaximalKey ==
    /\ pc[1] = "selected" => /\ sel[1] \in C8Ready
                             /\ \A d \in C8Ready : ~C8Below(sel[1], d)
    /\ pc[1] = "done" => C8Ready = {}

\* C8's case: the pass selected over an older ready directive of lower rank.
C8_Witness ==
    /\ pc[1] = "selected"
    /\ \E d \in C8Ready :
          /\ C8Rank(attr[d].priority) < C8Rank(attr[sel[1]].priority)
          /\ ages[1][d] > ages[1][sel[1]]

\* C9: among ready directives of equal rank and equal age, the one selected has
\* the smallest identifier, whatever the enumeration order.
C9_TieByIdentifier ==
    pc[1] = "selected" =>
        \A d \in C8Ready :
            (/\ C8Rank(attr[d].priority) = C8Rank(attr[sel[1]].priority)
             /\ ages[1][d] = ages[1][sel[1]])
            => sel[1] <= d

\* Every prerequisite the scan extracted from d is matched, by file name, slug or
\* to-do id, by a document in one of the given folders.
C10Satisfied(d, folders) ==
    \A i \in DOMAIN extract_prerequisites(d) :
        LET prereq == extract_prerequisites(d)[i] IN
        \E c \in Directives : \E f \in folders :
            /\ files[f][c] # Absent
            /\ \/ prereq = <<"file", c>>
               \/ prereq = <<"slug", c>> /\ attr[c].meta
               \/ prereq = <<"todo", c>> /\ attr[c].meta /\ attr[c].todo

C10Parsed == {d \in Directives : files["new"][d] # Absent /\ attr[d].meta}

\* C10 as stated: a directive is ready exactly when each of its prerequisites is
\* matched in success, failed, slow or exemplar, so a pass finds nothing only if
\* no parsed directive of new has them all matched there.
C10_AnyTerminalFolder ==
    /\ pc[1] = "selected" => C10Satisfied(sel[1], TerminalFolders)
    /\ pc[1] = "done" => \A d \in C10Parsed : ~C10Satisfied(d, TerminalFolders)

\* C10 amended: a directive is ready exactly when each of its prerequisites is
\* matched in success, slow or exemplar; a match in failed does not count.
C10_CompletionFoldersOnly ==
    /\ pc[1] = "selected" => C10Satisfied(sel[1], {"success", "slow", "exemplar"})
    /\ pc[1] = "done" => \A d \in C10Parsed : ~C10Satisfied(d, {"success", "slow", "exemplar"})

\* C10's case: the pass found nothing although the only prerequisite of a
\* directive of new is matched in failed.
C10_Witness ==
    /\ pc[1] = "done"
    /\ \E d \in C10Parsed :
          /\ Len(extract_prerequisites(d)) = 1
          /\ C10Satisfied(d, {"failed"})

\* The directives in success, slow or exemplar.
C11Finished == {c \in Directives : \E f \in {"success", "slow", "exemplar"} : files[f][c] # Absent}

\* What a finished directive can be referred to by: its identifier (the name of
\* its file), the slug of its header, the external-todo id of its header.
C11NamesOf(c) ==
    {<<"file", c>>}
    \cup (IF attr[c].meta THEN {<<"slug", c>>} ELSE {})
    \cup (IF attr[c].meta /\ attr[c].todo THEN {<<"todo", c>>} ELSE {})

C12_RelocatedOnce ==
    [][\A d \in Directives :
          (\E f \in TerminalFolders : files[f][d] # Absent)
          => /\ \A f \in TerminalFolders : files'[f][d] = files[f][d]
             /\ executed'[d] = executed[d]]_vars

\* ---- properties of run (SpecRun) -------------------------------------------------
\* A pass that did work ends by taking the file it selected, and no other, out of
\* new.
C13RemovesSelected ==
    /\ pc[1] = "moving" => (pc'[1] = "idle" /\ files'["new"][sel[1]] = Absent)
    /\ \A d \in Files :
          (files["new"][d] # Absent /\ files'["new"][d] = Absent) => (pc[1] = "moving" /\ d = sel[1])

\* run has returned and left nothing in new that parses and has its prerequisites
\* met.
C13Drained == pc[1] = "done" => \A d \in InFolder("new") : ~IsCandidate(d)

\* C13: run terminates for every finite set of directives in new: each pass that
\* does work removes exactly one directive from new, run returns after the first
\* pass that does no work, and when it has returned no directive that is parseable
\* and has all its prerequisites met remains in new.
C13_RunTerminates ==
    /\ <>(pc[1] = "done")
    /\ [](pc[1] = "done" => [](pc[1] = "done"))
    /\ []C13Drained
    /\ [][C13RemovesSelected]_vars

\* run has returned after passes that relocated a directive and the output
\* artifact written for it, and it left a document behind that is not ready.
C13_Witness ==
    /\ pc[1] = "done"
    /\ \E d \in Directives : \E o \in Artifacts :
          /\ \E f \in TerminalFolders : Exists(f, d)
          /\ \E f \in TerminalFolders : Exists(f, o)
          /\ attr[o].stem = attr[d].slug
    /\ InFolder("new") # {}

\* ---- properties of runSingle (SpecSingle) ----------------------------------------
C14NoneReady == \A d \in InFolder("new") : ~IsCandidate(d)

C15Transient == {"429", "500", "timeout"}

RECURSIVE C15Pow2(_)
C15Pow2(n) == IF n = 0 THEN 1 ELSE 2 * C15Pow2(n - 1)

C17NotRetriable == {"401", "403", "400", "bad_json", "missing_key"}

\* C17: an answer of authentication class (401, 403), another 400-class request
\* error or a malformed response body is never retried: no request is posted
\* after it and the call returns a failure.
C17_NeverRetried ==
    /\ \A i \in DOMAIN calls : calls[i] \in C17NotRetriable => i = Len(calls)
    /\ (chat_pc = "returned" /\ calls[Len(calls)] \in C17NotRetriable) => ~result.success

\* ---- properties of the batch jobs (SpecBatch) ------------------------------------
C20Uniform(job) ==
    \A i \in DOMAIN job.requests :
        job.requests[i].platform = job.platform /\ job.requests[i].model = job.model

\* C20: every batch job produced from any list of requests holds only requests of
\* one platform and one model, and no job mixing two platforms or two models is
\* submitted.
C20_JobsAreUniform ==
    /\ \A j \in DOMAIN batch_jobs :
          /\ batch_jobs[j].requests # <<>>
          /\ C20Uniform(batch_jobs[j])
          /\ \A i, k \in DOMAIN batch_jobs[j].requests :
                batch_jobs[j].requests[i].platform = batch_jobs[j].requests[k].platform
                /\ batch_jobs[j].requests[i].model = batch_jobs[j].requests[k].model
    /\ \A j \in DOMAIN active_batches : C20Uniform(active_batches[j])

\* Requests of two platforms have been turned into two submitted jobs, one of
\* them with two requests.
C20_Witness ==
    /\ batch_pc = "returned"
    /\ Len(batch_jobs) = 2
    /\ Len(batch_jobs[1].requests) = 2
    /\ batch_jobs[1].platform # batch_jobs[2].platform
    /\ Len(active_batches) = 2

\* ---- properties of a pass under failures (SpecFault) -----------------------------
\* C18: whatever fails during a pass (the provider call, a file read or write,
\* the saving of the session, the bridge sync, the rename), no exception leaves
\* the execution loop, and at the end of the pass the directive is in a terminal
\* folder or still in new with its file untouched and without an entry in the
\* session log.
C18_NoExceptionNoHalfPass ==
    /\ pc[1] # "crashed"
    /\ pc[1] \in {"idle", "done", "crashed"} =>
          \A d \in Directives :
              Exists("new", d) =>
                  /\ files["new"][d] = "pending"
                  /\ \A i \in DOMAIN session_context[1] : session_context[1][i] # d

\* ---- properties of an interrupted pass (SpecInterrupt) ---------------------------
\* C19: a worker interrupted at any point of a pass before the relocation (between
\* the two renames of the claim and between the status rewrite and the move
\* included) leaves the directive in new with the header status pending, where a
\* later pass finds it.
C19_InterruptedLeavesPending ==
    \A w \in Workers :
        pc[w] = "interrupted" =>
            /\ Exists("new", sel[w])
            /\ files["new"][sel[w]] = "pending"

\* ---- properties of the batch coordinator's waiting and results (SpecBatch) -------
\* C21: when the maximum total wait has passed, every batch that has not reached
\* a terminal status is marked timeout, and for every request of such a batch the
\* coordinator returns a failure result, so that no directive of a timed-out
\* batch is left without a result.
C21_TimeoutGivesFailureResults ==
    batch_pc = "returned" =>
        /\ \A j \in DOMAIN job_status : job_status[j] \notin {"submitted", "processing"}
        /\ \A j \in DOMAIN job_status :
              job_status[j] = "timeout" =>
                  \A i \in DOMAIN batch_jobs[j].requests :
                      <<batch_jobs[j].requests[i].id, "failure">> \in all_results

\* C22: when the submission or the retrieval of the results of a batch fails, the
\* batch is marked failed and every directive in it is relocated to failed: none
\* stays in new or reaches a success-class folder.
C22_FailedBatchRelocatesDirectives ==
    batch_pc = "returned" =>
        \A j \in DOMAIN job_status :
            (job_status[j] = "failed" \/ retrieval[j] = "failed") =>
                /\ job_status[j] = "failed"
                /\ \A i \in DOMAIN batch_jobs[j].requests :
                      /\ Exists("failed", batch_jobs[j].requests[i].directive_path)
                      /\ ~Exists("new", batch_jobs[j].requests[i].directive_path)
                      /\ \A f \in CompletionFolders : ~Exists(f, batch_jobs[j].requests[i].directive_path)

\* ---- properties of the batch pass of the agent (Spec) ----------------------------
\* C23: in batch mode the ready directives are claimed and submitted together as
\* one batch job, and every directive moved to a terminal folder by the pass adds
\* its entry to the session completion log: the step that follows the move of a
\* directive appends that directive to the persisted log, and the pass ends with
\* one batch job submitted.
C23_BatchPassIsOneJobAndLogged ==
    [][\A w \in Workers :
          /\ (pc[w] = "b_log" /\ pc'[w] # "b_log") =>
                 /\ pc'[w] = "b_next"
                 /\ session_file' = Append(session_context[w], sel[w])
          /\ (pc[w] = "b_next" /\ pc'[w] = "idle" /\ \E d \in Files : w \in executed[d]) =>
                 Len(batch_jobs') = 1]_vars

\* ---- the decomposer in detail: analyze_prompt and process_prompt (SpecDecompose) --
\* A prompt is a sequence of tokens: blanks, sentence terminators and words. The
\* words are one of each kind the analysis tells apart: an action word that is
\* also one of the words of the analysis phase ("create"), a word of high and one of
\* low priority, a complexity indicator that starts a phase ("api") and one that
\* starts none ("system"), a short word and a word longer than the length from
\* which a sentence counts as substantial.
MaxPromptLen == 4
MaxStamp == 1
SubstantialLength == 10

Tokens == {" ", ".", "x", "create", "urgent", "later", "api", "system", "documentation"}

TokenLen(t) ==
    CASE t = "create" -> 6
      [] t = "urgent" -> 6
      [] t = "later" -> 5
      [] t = "api" -> 3
      [] t = "system" -> 6
      [] t = "documentation" -> 13
      [] OTHER -> 1

RECURSIVE StrLen(_)
StrLen(s) == IF s = <<>> THEN 0 ELSE TokenLen(Head(s)) + StrLen(Tail(s))

Has(s, t) == \E i \in DOMAIN s : s[i] = t

RECURSIVE lstrip(_)
lstrip(s) == IF s # <<>> /\ Head(s) = " " THEN lstrip(Tail(s)) ELSE s

RECURSIVE rstrip(_)
rstrip(s) == IF s # <<>> /\ s[Len(s)] = " " THEN rstrip(SubSeq(s, 1, Len(s) - 1)) ELSE s

strip(s) == rstrip(lstrip(s))

\* re.sub(r'\s+', ' ', s): every run of blanks becomes one blank.
RECURSIVE collapse(_)
collapse(s) ==
    IF Len(s) < 2 THEN s
    ELSE IF s[1] = " " /\ s[2] = " " THEN collapse(Tail(s))
    ELSE <<Head(s)>> \o collapse(Tail(s))

\* SecuritySanitizer.sanitize_prompt on a prompt without dangerous patterns.
sanitize_prompt(p) == collapse(strip(p))

\* re.split(r'[.!?]+', prompt): a run of terminators separates two fragments.
RECURSIVE lstrip_terminators(_)
lstrip_terminators(s) == IF s # <<>> /\ Head(s) = "." THEN lstrip_terminators(Tail(s)) ELSE s

RECURSIVE re_split(_, _)
re_split(s, cur) ==
    IF s = <<>> THEN <<cur>>
    ELSE IF Head(s) = "." THEN <<cur>> \o re_split(lstrip_terminators(s), <<>>)
    ELSE re_split(Tail(s), Append(cur, Head(s)))

Todo(i, c, p) == [id |-> i, content |-> c, status |-> "pending", priority |-> p]

\* _heuristic_analyze_prompt. The identifiers are fresh random values; a record is
\* identified here by its position in the list.
heuristic_analyze_prompt_unstripped(p) ==
    LET sentences == re_split(p, <<>>)
        stripped == [i \in DOMAIN sentences |-> strip(sentences[i])]
        Included(s) == s # <<>> /\ (Has(s, "create") \/ StrLen(s) > SubstantialLength)
        kept == SelectSeq(stripped, Included)
        priority(s) == IF Has(s, "urgent") THEN "high"
                       ELSE IF Has(s, "later") THEN "low" ELSE "medium"
    IN  IF kept # <<>>
        THEN [i \in DOMAIN kept |-> Todo(i, kept[i], priority(kept[i]))]
        ELSE <<Todo(1, p, "medium")>>

heuristic_analyze_prompt(p) ==
    LET sentences == re_split(p, <<>>)
        stripped == [i \in DOMAIN sentences |-> strip(sentences[i])]
        Included(s) == s # <<>> /\ (Has(s, "create") \/ StrLen(s) > SubstantialLength)
        kept == SelectSeq(stripped, Included)
        priority(s) == IF Has(s, "urgent") THEN "high"
                       ELSE IF Has(s, "later") THEN "low" ELSE "medium"
    IN  IF kept # <<>>
        THEN [i \in DOMAIN kept |-> Todo(i, kept[i], priority(kept[i]))]
        ELSE <<Todo(1, strip(p), "medium")>>

\* _enhanced_heuristic_analysis, reached through _llm_decompose_prompt.
enhanced_heuristic_analysis(p) ==
    LET is_complex == Has(p, "system") \/ Has(p, "api")
        analysis == IF Has(p, "create")
                    THEN <<[content |-> <<"Analyze requirements">> \o p, priority |-> "high"]>>
                    ELSE <<>>
        backend == IF Has(p, "api")
                   THEN <<[content |-> <<"Implement backend">>, priority |-> "high"]>>
                   ELSE <<>>
        tests == IF analysis \o backend # <<>>
                 THEN <<[content |-> <<"Write tests">>, priority |-> "medium"]>>
                 ELSE <<>>
        deploy == IF analysis \o backend \o tests # <<>>
                  THEN <<[content |-> <<"Deploy">>, priority |-> "low"]>>
                  ELSE <<>>
        phases == IF is_complex THEN analysis \o backend \o tests \o deploy ELSE <<>>
    IN  IF phases # <<>>
        THEN [i \in DOMAIN phases |-> Todo(i, phases[i].content, phases[i].priority)]
        ELSE heuristic_analyze_prompt(p)

analyze_prompt(p, llm) ==
    IF llm THEN enhanced_heuristic_analysis(p) ELSE heuristic_analyze_prompt(p)

\* create_slug: a digest of the content, so equal contents have equal slugs.
create_slug(content) == <<"directive", content>>

OutputNames == {n \in DOMAIN written : n[2] = "output"}
LastStamp == IF OutputNames = {} THEN 0
             ELSE CHOOSE t \in 0..MaxStamp :
                     /\ \E n \in OutputNames : n[3] = t
                     /\ \A n \in OutputNames : n[3] <= t

WriteFile(dir, name, doc) ==
    [n \in DOMAIN dir \cup {name} |-> IF n = name THEN doc ELSE dir[n]]

\* The prerequisites process_prompt hands to create_directive_file for the i-th
\* record: the slugs of all directives created before it, none for the first.
prerequisites_first_only(i, slugs) == IF i > 1 THEN <<slugs[1]>> ELSE <<>>

prerequisites_of(i, slugs) == IF i > 1 THEN slugs ELSE <<>>

Prompts == UNION {[1..n -> Tokens] : n \in 0..MaxPromptLen}

InitDecompose ==
    /\ NoCounts
    /\ NoWaiting
    /\ NoRewrite
    /\ NoArtifacts
    /\ NoSettings
    /\ NoGateway
    /\ NoSession
    /\ NoSave
    /\ NoCost
    /\ NoBridge
    /\ files = EmptyStore
    /\ attr = [d \in Files |-> NoAttr]
    /\ ctime = [d \in Files |-> 0]
    /\ settings = [exemplar_enabled |-> TRUE, exemplar_threshold_seconds |-> DefaultExemplarThreshold]
    /\ created_slugs = <<>>
    /\ pc = [w \in Workers |-> "idle"]
    /\ sel = [w \in Workers |-> None]
    /\ ages = [w \in Workers |-> NoAges]
    /\ res = [w \in Workers |-> NoRes]
    /\ queue = [w \in Workers |-> <<>>]
    /\ session_context = [w \in Workers |-> <<>>]
    /\ session_file = <<>>
    /\ executed = [d \in Files |-> {}]
    /\ chat_pc = "idle"
    /\ call = [retry_attempts |-> 0, retry_delay |-> 0]
    /\ attempt = 0
    /\ retry_delay = 0
    /\ calls = <<>>
    /\ sleeps = <<>>
    /\ result = NoResult
    /\ batch_pc = "idle"
    /\ requests = <<>>
    /\ batches = <<>>
    /\ batch_jobs = <<>>
    /\ active_batches = <<>>
    /\ job_status = <<>>
    /\ retrieval = <<>>
    /\ all_results = {}
    /\ polls = 0
    /\ decomp_pc = "called"
    /\ prompt \in Prompts
    /\ use_llm \in BOOLEAN
    /\ todos = <<>>
    /\ written = <<>>

\* A direct call of analyze_prompt with the prompt as given.
AnalyzeOnly ==
    /\ decomp_pc = "called"
    /\ todos' = analyze_prompt(prompt, use_llm)
    /\ decomp_pc' = "analyzed"
    /\ UNCHANGED <<prompt, use_llm, written>>
    /\ UNCHANGED lifecycle_vars
    /\ UNCHANGED count_vars
    /\ UNCHANGED wait_vars
    /\ UNCHANGED status_vars
    /\ UNCHANGED artifact_vars
    /\ UNCHANGED settings_vars
    /\ UNCHANGED gateway_vars
    /\ UNCHANGED session_vars
    /\ UNCHANGED save_vars
    /\ UNCHANGED chat_vars
    /\ UNCHANGED batch_vars
    /\ UNCHANGED bridge_vars
    /\ UNCHANGED cost_vars

\* process_prompt up to its loop: the prompt is sanitized, then analysed.
DecomposeAnalyze ==
    /\ decomp_pc = "called"
    /\ prompt' = sanitize_prompt(prompt)
    /\ todos' = analyze_prompt(prompt', use_llm)
    /\ decomp_pc' = "looping"
    /\ UNCHANGED <<use_llm, written>>
    /\ UNCHANGED lifecycle_vars
    /\ UNCHANGED count_vars
    /\ UNCHANGED wait_vars
    /\ UNCHANGED status_vars
    /\ UNCHANGED artifact_vars
    /\ UNCHANGED settings_vars
    /\ UNCHANGED gateway_vars
    /\ UNCHANGED session_vars
    /\ UNCHANGED save_vars
    /\ UNCHANGED chat_vars
    /\ UNCHANGED batch_vars
    /\ UNCHANGED bridge_vars
    /\ UNCHANGED cost_vars

\* One iteration of the loop of process_prompt: create_output_file(todo, ""), whose
\* name carries the second of the clock, then create_directive_file with the slugs
\* of all directives created before, then the slug of this one is recorded.
DecomposeStep ==
    /\ decomp_pc = "looping"
    /\ Len(created_slugs) < Len(todos)
    /\ LET todo == todos[Len(created_slugs) + 1]
           slug == create_slug(todo.content)
       IN  \E unix_timestamp \in LastStamp..MaxStamp :
              LET output_filename == <<slug, "output", unix_timestamp>>
                  directive_slug == <<slug, "task", todo.id>>
                  output_doc == [kind |-> "output", id |-> <<"output", todo.id>>,
                                 directive_file |-> <<>>]
                  directive_doc == [kind |-> "directive", id |-> todo.id,
                                    status |-> todo.status, priority |-> todo.priority,
                                    prerequisites |->
                                        prerequisites_of(Len(created_slugs) + 1, created_slugs),
                                    output_slug |-> output_filename]
              IN  /\ written' = WriteFile(WriteFile(written, output_filename, output_doc),
                                          directive_slug, directive_doc)
                  /\ created_slugs' = Append(created_slugs, directive_slug)
    /\ UNCHANGED <<decomp_pc, prompt, use_llm, todos>>
    /\ UNCHANGED <<files, attr, ctime, settings, pc, sel, ages, res, queue,
                   session_context, session_file, executed>>
    /\ UNCHANGED chat_vars
    /\ UNCHANGED batch_vars
    /\ UNCHANGED bridge_vars
    /\ UNCHANGED cost_vars
    /\ UNCHANGED save_vars
    /\ UNCHANGED session_vars
    /\ UNCHANGED gateway_vars
    /\ UNCHANGED settings_vars
    /\ UNCHANGED artifact_vars
    /\ UNCHANGED status_vars
    /\ UNCHANGED wait_vars
    /\ UNCHANGED count_vars

DecomposeReturn ==
    /\ decomp_pc = "looping"
    /\ Len(created_slugs) = Len(todos)
    /\ decomp_pc' = "returned"
    /\ UNCHANGED <<prompt, use_llm, todos, written>>
    /\ UNCHANGED lifecycle_vars
    /\ UNCHANGED count_vars
    /\ UNCHANGED wait_vars
    /\ UNCHANGED status_vars
    /\ UNCHANGED artifact_vars
    /\ UNCHANGED settings_vars
    /\ UNCHANGED gateway_vars
    /\ UNCHANGED session_vars
    /\ UNCHANGED save_vars
    /\ UNCHANGED chat_vars
    /\ UNCHANGED batch_vars
    /\ UNCHANGED bridge_vars
    /\ UNCHANGED cost_vars

NextDecompose == AnalyzeOnly \/ DecomposeAnalyze \/ DecomposeStep \/ DecomposeReturn

SpecDecompose == InitDecompose /\ [][NextDecompose]_vars

MaxTodos == 2

TodoContents == {"write tests", "fix bug"}
TodoPriorities == {"high", "medium", "low"}
TodoStatuses == {"pending", "in_progress", "completed"}

ClaudeTodos ==
    UNION {{[i \in 1..n |-> [id |-> i, content |-> t[i].content,
                             priority |-> t[i].priority, status |-> t[i].status]] :
               t \in [1..n -> [content : TodoContents, priority : TodoPriorities,
                               status : TodoStatuses]]} : n \in 0..MaxTodos}

NameError == "NameError"

\* _build_directive_from_todo: the frontmatter and the body of the directive, or
\* the exception it raises. For every to-do but the first the function reads the
\* name todos, which is neither a parameter nor a local nor a global of the module.
build_directive_from_todo(todo, directive_id, todo_index, total_todos) ==
    LET frontmatter == [id |-> directive_id,
                        status |-> todo.status,
                        priority |-> todo.priority,
                        slug |-> <<"todo", todo.id>>,
                        claude_todo_id |-> todo.id,
                        todo_index |-> todo_index,
                        total_todos |-> total_todos]
    IN  IF todo_index > 0
        THEN [raised |-> NameError, frontmatter |-> frontmatter, body |-> ""]
        ELSE [raised |-> "", frontmatter |-> frontmatter, body |-> todo.content]

\* _create_session_context: a copy of the to-dos, no completed directive.
create_session_context(tds) ==
    [session_id |-> "session", todos |-> tds, completed_directives |-> <<>>]

\* sync_todo_status of a bridge whose context directory is dir.
sync_todo_status(ctxs, dir, todo_id, status) ==
    IF ctxs[dir] = NoContext
    THEN ctxs
    ELSE LET tds == ctxs[dir].todos
             hits == {k \in DOMAIN tds : tds[k].id = todo_id}
             first == IF hits = {} THEN 0 ELSE CHOOSE k \in hits : \A h \in hits : k <= h
         IN  [ctxs EXCEPT ![dir].todos =
                 [k \in DOMAIN tds |-> IF k = first THEN [tds[k] EXCEPT !.status = status]
                                       ELSE tds[k]]]

FrontmatterGet(fm, key, default) == IF key \in DOMAIN fm THEN fm[key] ELSE default

ScanFolders == {"new", "success", "failed", "slow"}

\* get_claude_todos_from_directives with include_completed = True.
get_claude_todos_from_directives(docs) ==
    {[id |-> docs[i].frontmatter.claude_todo_id,
      content |-> FrontmatterGet(docs[i].frontmatter, "task", ""),
      status |-> IF docs[i].folder = "success" THEN "completed" ELSE "pending",
      priority |-> FrontmatterGet(docs[i].frontmatter, "priority", "medium"),
      directive_id |-> docs[i].frontmatter.id] :
        i \in {k \in DOMAIN docs : /\ docs[k].folder \in ScanFolders
                                   /\ "claude_todo_id" \in DOMAIN docs[k].frontmatter}}

InitBridge ==
    /\ NoCounts
    /\ NoWaiting
    /\ NoRewrite
    /\ NoArtifacts
    /\ NoSettings
    /\ NoGateway
    /\ NoSession
    /\ NoSave
    /\ NoCost
    /\ NoDecomposition
    /\ files = EmptyStore
    /\ attr = [d \in Files |-> NoAttr]
    /\ ctime = [d \in Files |-> 0]
    /\ settings = [exemplar_enabled |-> TRUE, exemplar_threshold_seconds |-> DefaultExemplarThreshold]
    /\ created_slugs = <<>>
    /\ pc = [w \in Workers |-> "idle"]
    /\ sel = [w \in Workers |-> None]
    /\ ages = [w \in Workers |-> NoAges]
    /\ res = [w \in Workers |-> NoRes]
    /\ queue = [w \in Workers |-> <<>>]
    /\ session_context = [w \in Workers |-> <<>>]
    /\ session_file = <<>>
    /\ executed = [d \in Files |-> {}]
    /\ chat_pc = "idle"
    /\ call = [retry_attempts |-> 0, retry_delay |-> 0]
    /\ attempt = 0
    /\ retry_delay = 0
    /\ calls = <<>>
    /\ sleeps = <<>>
    /\ result = NoResult
    /\ batch_pc = "idle"
    /\ requests = <<>>
    /\ batches = <<>>
    /\ batch_jobs = <<>>
    /\ active_batches = <<>>
    /\ job_status = <<>>
    /\ retrieval = <<>>
    /\ all_results = {}
    /\ polls = 0
    /\ bridge_pc = "called"
    /\ claude_todos \in ClaudeTodos
    /\ bridged = <<>>
    /\ contexts = [dir \in ContextDirs |-> NoContext]
    /\ memory = NoContext
    /\ projection = {}

\* claude_todos_to_directives up to its loop: the session context is created.
BridgeStart ==
    /\ bridge_pc = "called"
    /\ contexts' = [contexts EXCEPT !["directives/context"] = create_session_context(claude_todos)]
    /\ bridge_pc' = "converting"
    /\ UNCHANGED <<claude_todos, bridged, memory, projection>>
    /\ UNCHANGED lifecycle_vars
    /\ UNCHANGED count_vars
    /\ UNCHANGED wait_vars
    /\ UNCHANGED status_vars
    /\ UNCHANGED artifact_vars
    /\ UNCHANGED settings_vars
    /\ UNCHANGED gateway_vars
    /\ UNCHANGED session_vars
    /\ UNCHANGED save_vars
    /\ UNCHANGED decomp_vars
    /\ UNCHANGED chat_vars
    /\ UNCHANGED batch_vars
    /\ UNCHANGED cost_vars

\* One iteration of the loop: the directive is built and written into new.
BridgeStep ==
    /\ bridge_pc = "converting"
    /\ Len(bridged) < Len(claude_todos)
    /\ LET todo_index == Len(bridged)
           content == build_directive_from_todo(claude_todos[todo_index + 1], todo_index + 1,
                                                todo_index, Len(claude_todos))
       IN  IF content.raised = NameError
           THEN /\ bridge_pc' = "raised"
                /\ UNCHANGED bridged
           ELSE /\ bridged' = Append(bridged, [frontmatter |-> content.frontmatter,
                                               body |-> content.body, folder |-> "new"])
                /\ UNCHANGED bridge_pc
    /\ UNCHANGED <<claude_todos, contexts, memory, projection>>
    /\ UNCHANGED lifecycle_vars
    /\ UNCHANGED count_vars
    /\ UNCHANGED wait_vars
    /\ UNCHANGED status_vars
    /\ UNCHANGED artifact_vars
    /\ UNCHANGED settings_vars
    /\ UNCHANGED gateway_vars
    /\ UNCHANGED session_vars
    /\ UNCHANGED save_vars
    /\ UNCHANGED decomp_vars
    /\ UNCHANGED chat_vars
    /\ UNCHANGED batch_vars
    /\ UNCHANGED cost_vars

BridgeReturn ==
    /\ bridge_pc = "converting"
    /\ Len(bridged) = Len(claude_todos)
    /\ bridge_pc' = "returned"
    /\ UNCHANGED <<claude_todos, bridged, contexts, memory, projection>>
    /\ UNCHANGED lifecycle_vars
    /\ UNCHANGED count_vars
    /\ UNCHANGED wait_vars
    /\ UNCHANGED status_vars
    /\ UNCHANGED artifact_vars
    /\ UNCHANGED settings_vars
    /\ UNCHANGED gateway_vars
    /\ UNCHANGED session_vars
    /\ UNCHANGED save_vars
    /\ UNCHANGED decomp_vars
    /\ UNCHANGED chat_vars
    /\ UNCHANGED batch_vars
    /\ UNCHANGED cost_vars

\* EngageAgent.__init__: _load_or_create_session_context reads the latest session
\* context of <base>/directives/context, or creates one.
AgentStart ==
    /\ bridge_pc \in {"returned", "raised"}
    /\ memory = NoContext
    /\ memory' = IF contexts["directives/context"] # NoContext
                 THEN contexts["directives/context"]
                 ELSE [session_id |-> "session", todos |-> <<>>, completed_directives |-> <<>>]
    /\ contexts' = [contexts EXCEPT !["directives/context"] = memory']
    /\ UNCHANGED <<bridge_pc, claude_todos, bridged, projection>>
    /\ UNCHANGED lifecycle_vars
    /\ UNCHANGED count_vars
    /\ UNCHANGED wait_vars
    /\ UNCHANGED status_vars
    /\ UNCHANGED artifact_vars
    /\ UNCHANGED settings_vars
    /\ UNCHANGED gateway_vars
    /\ UNCHANGED session_vars
    /\ UNCHANGED save_vars
    /\ UNCHANGED decomp_vars
    /\ UNCHANGED chat_vars
    /\ UNCHANGED batch_vars
    /\ UNCHANGED cost_vars

\* A sequential pass over the bridged directive i, from its execution on:
\* _update_session_context_with_directive (sync_todo_status on the agent's bridge,
\* the entry appended to the in-memory context, the context saved) and
\* move_directive.
PassFinish(i) ==
    /\ bridge_pc \in {"returned", "raised"}
    /\ memory # NoContext
    /\ bridged[i].folder = "new"
    /\ \E o \in Outcomes :
          LET synced == sync_todo_status(contexts, "context",
                                         bridged[i].frontmatter.claude_todo_id,
                                         StatusFor(o.success))
          IN  /\ memory' = [memory EXCEPT !.completed_directives =
                                              Append(@, bridged[i].frontmatter.id)]
              /\ contexts' = [synced EXCEPT !["directives/context"] = memory']
              /\ bridged' = [bridged EXCEPT ![i].folder = DestFolder(o.success, o.duration),
                                            ![i].frontmatter.status = StatusFor(o.success)]
    /\ UNCHANGED <<bridge_pc, claude_todos, projection>>
    /\ UNCHANGED lifecycle_vars
    /\ UNCHANGED count_vars
    /\ UNCHANGED wait_vars
    /\ UNCHANGED status_vars
    /\ UNCHANGED artifact_vars
    /\ UNCHANGED settings_vars
    /\ UNCHANGED gateway_vars
    /\ UNCHANGED session_vars
    /\ UNCHANGED save_vars
    /\ UNCHANGED decomp_vars
    /\ UNCHANGED chat_vars
    /\ UNCHANGED batch_vars
    /\ UNCHANGED cost_vars

\* get_claude_todos_from_directives, after which nothing more is explored.
Scan ==
    /\ bridge_pc \in {"returned", "raised"}
    /\ projection' = get_claude_todos_from_directives(bridged)
    /\ bridge_pc' = "scanned"
    /\ UNCHANGED <<claude_todos, bridged, contexts, memory>>
    /\ UNCHANGED lifecycle_vars
    /\ UNCHANGED count_vars
    /\ UNCHANGED wait_vars
    /\ UNCHANGED status_vars
    /\ UNCHANGED artifact_vars
    /\ UNCHANGED settings_vars
    /\ UNCHANGED gateway_vars
    /\ UNCHANGED session_vars
    /\ UNCHANGED save_vars
    /\ UNCHANGED decomp_vars
    /\ UNCHANGED chat_vars
    /\ UNCHANGED batch_vars
    /\ UNCHANGED cost_vars

NextBridge ==
    \/ BridgeStart
    \/ BridgeStep
    \/ BridgeReturn
    \/ AgentStart
    \/ \E i \in DOMAIN bridged : PassFinish(i)
    \/ Scan

SpecBridge == InitBridge /\ [][NextBridge]_vars

\* ---- properties of the bridge (SpecBridge) ---------------------------------------
\* C25: the forward bridge, given n >= 1 to-dos, writes exactly n directives in the
\* order of its input; the i-th records the identifier of the i-th to-do and its
\* position, and for i > 1 the slug of the directive of the to-do before it as its
\* prerequisite.
C25_BridgeWritesEveryTodo ==
    bridge_pc \in {"returned", "raised"} =>
        /\ Len(bridged) = Len(claude_todos)
        /\ \A i \in DOMAIN bridged :
              /\ bridged[i].frontmatter.claude_todo_id = claude_todos[i].id
              /\ bridged[i].frontmatter.todo_index = i - 1
              /\ i > 1 => FrontmatterGet(bridged[i].frontmatter, "prerequisites", <<>>)
                              = <<bridged[i - 1].frontmatter.slug>>

\* C26: once a pass has finished a directive that records the to-do t, a persisted
\* session context shows t with the status of the outcome, completed or failed.
C26_TodoStatusPersisted ==
    \A i \in DOMAIN bridged :
        bridged[i].folder # "new" =>
            \E dir \in ContextDirs : \E k \in DOMAIN contexts[dir].todos :
                /\ contexts[dir].todos[k].id = bridged[i].frontmatter.claude_todo_id
                /\ contexts[dir].todos[k].status =
                       (IF bridged[i].folder = "failed" THEN "failed" ELSE "completed")

\* C27: the scan projection of the directives the bridge wrote gives back the
\* (id, content, priority) of their to-dos, wherever in the lifecycle the
\* directives are, with status completed for a directive in success, slow or
\* exemplar and pending otherwise.
C27_ScanGivesBackTheTodos ==
    bridge_pc = "scanned" =>
        /\ {<<t.id, t.content, t.priority>> : t \in projection}
              = {<<claude_todos[i].id, claude_todos[i].content, claude_todos[i].priority>> :
                    i \in DOMAIN bridged}
        /\ \A i \in DOMAIN bridged :
              \E t \in projection :
                  /\ t.id = claude_todos[i].id
                  /\ t.status = (IF bridged[i].folder \in CompletionFolders
                                 THEN "completed" ELSE "pending")

\* ---- properties of the output artifacts of the decomposer (SpecDecompose) --------
\* C28: for every directive and the output artifact created for it, the artifact's
\* link back to its directive resolves to that directive.
C28_BackLinkResolves ==
    \A n \in DOMAIN written :
        written[n].kind = "directive" =>
            /\ written[n].output_slug \in DOMAIN written
            /\ written[written[n].output_slug].kind = "output"
            /\ written[written[n].output_slug].directive_file = n

\* ---- cost accounting of a successful provider call (SpecCost) --------------------
\* Prices are per 1000 tokens, in units of 10^-5 dollar, so that a cost is a whole
\* number of units of 10^-8 dollar: tokens * price.
pricing ==
    [claude |-> ("claude-3-opus" :> [input |-> 1500, output |-> 7500])
                @@ ("claude-3-sonnet" :> [input |-> 300, output |-> 1500])
                @@ ("claude-3-haiku" :> [input |-> 25, output |-> 125]),
     openai |-> ("gpt-4" :> [input |-> 3000, output |-> 6000])
                @@ ("gpt-4-turbo" :> [input |-> 1000, output |-> 3000])
                @@ ("gpt-3.5-turbo" :> [input |-> 50, output |-> 150])]

\* _calculate_cost.
calculate_cost(platform, model, tokens_in, tokens_out) ==
    LET model_pricing == IF platform \in DOMAIN pricing /\ model \in DOMAIN pricing[platform]
                         THEN pricing[platform][model]
                         ELSE [input |-> 0, output |-> 0]
    IN  tokens_in * model_pricing.input + tokens_out * model_pricing.output

\* The default model of each platform's completion, and str.lower on the platform.
DefaultModel(platform) ==
    IF platform = "claude" THEN "claude-3-5-sonnet-20241022" ELSE "gpt-4o-mini"

PlatformLower(platform) == IF platform = "Claude" THEN "claude" ELSE platform

\* The platform chat_completion calls: the one given, or the first with a key.
ResolvedPlatform(c) ==
    IF c.platform # "" THEN PlatformLower(c.platform)
    ELSE IF c.claude_key THEN "claude"
    ELSE IF c.openai_key THEN "openai" ELSE ""

ResolvedModel(c) == IF c.model # "" THEN c.model ELSE DefaultModel(ResolvedPlatform(c))

\* The models each provider serves: those of its price list and its default.
ServedModels(platform) ==
    IF platform \in DOMAIN pricing
    THEN DOMAIN pricing[platform] \cup {DefaultModel(platform)}
    ELSE {}

DirectivePlatforms == {"", "claude", "openai", "Claude"}
DirectiveModels == {"", "claude-3-sonnet", "claude-3-haiku", "gpt-4"}
TokenCounts == {0, 50, 100}
UsageKeys == {"input_tokens", "prompt_tokens"}

\* usage.get('input_tokens', 0) and usage.get('output_tokens', 0).
tokens_in_of(c) == IF c.usage_keys = "input_tokens" THEN c.usage_in ELSE 0
tokens_out_of(c) == IF c.usage_keys = "input_tokens" THEN c.usage_out ELSE 0

InitCost ==
    /\ NoCounts
    /\ NoWaiting
    /\ NoRewrite
    /\ NoArtifacts
    /\ NoSettings
    /\ NoGateway
    /\ NoSession
    /\ NoSave
    /\ NoDecomposition
    /\ NoBridge
    /\ files = EmptyStore
    /\ attr = [d \in Files |-> NoAttr]
    /\ ctime = [d \in Files |-> 0]
    /\ settings = [exemplar_enabled |-> TRUE, exemplar_threshold_seconds |-> DefaultExemplarThreshold]
    /\ created_slugs = <<>>
    /\ pc = [w \in Workers |-> "idle"]
    /\ sel = [w \in Workers |-> None]
    /\ ages = [w \in Workers |-> NoAges]
    /\ res = [w \in Workers |-> NoRes]
    /\ queue = [w \in Workers |-> <<>>]
    /\ session_context = [w \in Workers |-> <<>>]
    /\ session_file = <<>>
    /\ executed = [d \in Files |-> {}]
    /\ chat_pc = "idle"
    /\ call = [retry_attempts |-> 0, retry_delay |-> 0]
    /\ attempt = 0
    /\ retry_delay = 0
    /\ calls = <<>>
    /\ sleeps = <<>>
    /\ result = NoResult
    /\ batch_pc = "idle"
    /\ requests = <<>>
    /\ batches = <<>>
    /\ batch_jobs = <<>>
    /\ active_batches = <<>>
    /\ job_status = <<>>
    /\ retrieval = <<>>
    /\ all_results = {}
    /\ polls = 0
    /\ cost_pc = "called"
    /\ cost_call \in [platform : DirectivePlatforms, model : DirectiveModels,
                      claude_key : BOOLEAN, openai_key : BOOLEAN,
                      usage_keys : UsageKeys, usage_in : TokenCounts, usage_out : TokenCounts]
    /\ ran_on = [platform |-> "", model |-> ""]
    /\ cost = 0

\* execute_directive in API mode: chat_completion succeeds on the platform and
\* model it resolved; the other calls end without a cost.
CallSucceeds ==
    /\ cost_pc = "called"
    /\ ResolvedModel(cost_call) \in ServedModels(ResolvedPlatform(cost_call))
    /\ IF ResolvedPlatform(cost_call) = "claude" THEN cost_call.claude_key ELSE cost_call.openai_key
    /\ ran_on' = [platform |-> ResolvedPlatform(cost_call), model |-> ResolvedModel(cost_call)]
    /\ cost_pc' = "succeeded"
    /\ UNCHANGED <<cost_call, cost>>
    /\ UNCHANGED lifecycle_vars
    /\ UNCHANGED count_vars
    /\ UNCHANGED wait_vars
    /\ UNCHANGED status_vars
    /\ UNCHANGED artifact_vars
    /\ UNCHANGED settings_vars
    /\ UNCHANGED gateway_vars
    /\ UNCHANGED session_vars
    /\ UNCHANGED save_vars
    /\ UNCHANGED decomp_vars
    /\ UNCHANGED bridge_vars
    /\ UNCHANGED chat_vars
    /\ UNCHANGED batch_vars

\* execute_directive after a success: the cost is computed from the directive's
\* platform and model and the usage of the result.
RecordCost ==
    /\ cost_pc = "succeeded"
    /\ cost' = calculate_cost(cost_call.platform, cost_call.model,
                              tokens_in_of(cost_call), tokens_out_of(cost_call))
    /\ cost_pc' = "recorded"
    /\ UNCHANGED <<cost_call, ran_on>>
    /\ UNCHANGED lifecycle_vars
    /\ UNCHANGED count_vars
    /\ UNCHANGED wait_vars
    /\ UNCHANGED status_vars
    /\ UNCHANGED artifact_vars
    /\ UNCHANGED settings_vars
    /\ UNCHANGED gateway_vars
    /\ UNCHANGED session_vars
    /\ UNCHANGED save_vars
    /\ UNCHANGED decomp_vars
    /\ UNCHANGED bridge_vars
    /\ UNCHANGED chat_vars
    /\ UNCHANGED batch_vars

NextCost == CallSucceeds \/ RecordCost

SpecCost == InitCost /\ [][NextCost]_vars

\* ---- properties of the cost accounting (SpecCost) --------------------------------
\* C29: the cost recorded for a successful call is tokens_in * input price / 1000 +
\* tokens_out * output price / 1000 with the prices of the platform and model the
\* call ran on, and zero when that model is not in the price table.
C29_CostOfTheModelRanOn ==
    cost_pc = "recorded" =>
        cost = IF ran_on.model \in DOMAIN pricing[ran_on.platform]
               THEN tokens_in_of(cost_call) * pricing[ran_on.platform][ran_on.model].input
                    + tokens_out_of(cost_call) * pricing[ran_on.platform][ran_on.model].output
               ELSE 0

\* ---- properties of analyze_prompt (SpecDecompose) --------------------------------
\* A fragment qualifies when, blanks at its ends removed, it is not empty and has
\* an action word or is longer than the substantial length.
C30Qualifies(s) ==
    /\ strip(s) # <<>>
    /\ (Has(s, "create") \/ StrLen(strip(s)) > SubstantialLength)

C30NoneQualifies ==
    \A i \in DOMAIN re_split(prompt, <<>>) : ~C30Qualifies(re_split(prompt, <<>>)[i])

MaxSaves == 2

\* The state before any pass, client call, decomposition, bridge call or cost record.
NoLifecycle ==
    /\ files = EmptyStore
    /\ attr = [d \in Files |-> NoAttr]
    /\ ctime = [d \in Files |-> 0]
    /\ settings = [exemplar_enabled |-> TRUE, exemplar_threshold_seconds |-> DefaultExemplarThreshold]
    /\ created_slugs = <<>>
    /\ pc = [w \in Workers |-> "idle"]
    /\ sel = [w \in Workers |-> None]
    /\ ages = [w \in Workers |-> NoAges]
    /\ res = [w \in Workers |-> NoRes]
    /\ queue = [w \in Workers |-> <<>>]
    /\ session_context = [w \in Workers |-> <<>>]
    /\ session_file = <<>>
    /\ executed = [d \in Files |-> {}]

NoChat ==
    /\ chat_pc = "idle"
    /\ call = [retry_attempts |-> 0, retry_delay |-> 0]
    /\ attempt = 0
    /\ retry_delay = 0
    /\ calls = <<>>
    /\ sleeps = <<>>
    /\ result = NoResult

NoBatch ==
    /\ batch_pc = "idle"
    /\ requests = <<>>
    /\ batches = <<>>
    /\ batch_jobs = <<>>
    /\ active_batches = <<>>
    /\ job_status = <<>>
    /\ retrieval = <<>>
    /\ all_results = {}
    /\ polls = 0

\* The chunks of a serialized context: the opening of the document, one chunk per
\* completed directive, the closing; Hole is the zero bytes a write past the end
\* of the file leaves behind it.
OpenChunk == <<"{">>
CloseChunk == <<"}">>
Hole == <<"\\0">>
Entry(w, k) == <<"entry", w, k>>

\* json.dump(context, f, indent=2): the chunks it hands to the file object.
json_dump(completed) == <<OpenChunk>> \o completed \o <<CloseChunk>>

\* json.load: a document is an opening, entries, a closing; anything else raises
\* JSONDecodeError.
Decodes(doc) ==
    /\ Len(doc) >= 2
    /\ doc[1] = OpenChunk
    /\ doc[Len(doc)] = CloseChunk
    /\ \A i \in 2..(Len(doc) - 1) : Len(doc[i]) = 3

\* What a reader finds in the bytes it read.
Classify(doc) ==
    IF doc = <<>> THEN "empty" ELSE IF Decodes(doc) THEN "whole" ELSE "partial"

\* write(2) of chunks at a file offset: bytes there are replaced, the file grows
\* as needed, a gap is filled with zero bytes.
WriteAt(doc, pos, chunks) ==
    LET n == IF pos + Len(chunks) > Len(doc) THEN pos + Len(chunks) ELSE Len(doc)
    IN  [i \in 1..n |-> IF i > pos /\ i <= pos + Len(chunks) THEN chunks[i - pos]
                        ELSE IF i <= Len(doc) THEN doc[i] ELSE Hole]

\* Every agent has been built: the session file holds the context its
\* construction saved.
InitSave ==
    /\ NoCounts
    /\ NoWaiting
    /\ NoRewrite
    /\ NoArtifacts
    /\ NoSettings
    /\ NoGateway
    /\ NoSession
    /\ NoLifecycle
    /\ NoChat
    /\ NoBatch
    /\ NoDecomposition
    /\ NoBridge
    /\ NoCost
    /\ save_pc = [w \in Workers |-> "idle"]
    /\ context_file = json_dump(<<>>)
    /\ offset = [w \in Workers |-> 0]
    /\ pending = [w \in Workers |-> <<>>]
    /\ saved = [w \in Workers |-> <<>>]
    /\ observed = [r \in Readers |-> "none"]

\* _update_session_context_with_directive appends the directive and calls
\* _save_session_context: open(context_file, 'w') truncates the file, json.dump
\* begins to fill the buffer of the file object.
SaveOpen(w) ==
    /\ save_pc[w] = "idle"
    /\ Len(saved[w]) < MaxSaves
    /\ saved' = [saved EXCEPT ![w] = Append(@, Entry(w, Len(@) + 1))]
    /\ context_file' = <<>>
    /\ offset' = [offset EXCEPT ![w] = 0]
    /\ pending' = [pending EXCEPT ![w] = json_dump(saved'[w])]
    /\ save_pc' = [save_pc EXCEPT ![w] = "dumping"]
    /\ UNCHANGED observed
    /\ UNCHANGED lifecycle_vars
    /\ UNCHANGED count_vars
    /\ UNCHANGED wait_vars
    /\ UNCHANGED status_vars
    /\ UNCHANGED artifact_vars
    /\ UNCHANGED settings_vars
    /\ UNCHANGED gateway_vars
    /\ UNCHANGED session_vars
    /\ UNCHANGED chat_vars
    /\ UNCHANGED batch_vars
    /\ UNCHANGED decomp_vars
    /\ UNCHANGED bridge_vars
    /\ UNCHANGED cost_vars

\* The buffer of the file object fills during json.dump and is written out: the
\* first chunks reach the file, the rest is still to come.
SaveFlush(w) ==
    /\ save_pc[w] = "dumping"
    /\ \E n \in 1..(Len(pending[w]) - 1) :
          /\ context_file' = WriteAt(context_file, offset[w], SubSeq(pending[w], 1, n))
          /\ offset' = [offset EXCEPT ![w] = @ + n]
          /\ pending' = [pending EXCEPT ![w] = SubSeq(@, n + 1, Len(@))]
    /\ UNCHANGED <<save_pc, saved, observed>>
    /\ UNCHANGED lifecycle_vars
    /\ UNCHANGED count_vars
    /\ UNCHANGED wait_vars
    /\ UNCHANGED status_vars
    /\ UNCHANGED artifact_vars
    /\ UNCHANGED settings_vars
    /\ UNCHANGED gateway_vars
    /\ UNCHANGED session_vars
    /\ UNCHANGED chat_vars
    /\ UNCHANGED batch_vars
    /\ UNCHANGED decomp_vars
    /\ UNCHANGED bridge_vars
    /\ UNCHANGED cost_vars

\* The end of the with block: close() writes what the buffer still holds.
SaveClose(w) ==
    /\ save_pc[w] = "dumping"
    /\ context_file' = WriteAt(context_file, offset[w], pending[w])
    /\ offset' = [offset EXCEPT ![w] = @ + Len(pending[w])]
    /\ pending' = [pending EXCEPT ![w] = <<>>]
    /\ save_pc' = [save_pc EXCEPT ![w] = "idle"]
    /\ UNCHANGED <<saved, observed>>
    /\ UNCHANGED lifecycle_vars
    /\ UNCHANGED count_vars
    /\ UNCHANGED wait_vars
    /\ UNCHANGED status_vars
    /\ UNCHANGED artifact_vars
    /\ UNCHANGED settings_vars
    /\ UNCHANGED gateway_vars
    /\ UNCHANGED session_vars
    /\ UNCHANGED chat_vars
    /\ UNCHANGED batch_vars
    /\ UNCHANGED decomp_vars
    /\ UNCHANGED bridge_vars
    /\ UNCHANGED cost_vars

\* A reader opens the session file and reads it: a starting worker in
\* _load_or_create_session_context, the bridge in _load_session_context.
LoadContext(r) ==
    /\ observed' = [observed EXCEPT ![r] = Classify(context_file)]
    /\ UNCHANGED <<save_pc, context_file, offset, pending, saved>>
    /\ UNCHANGED lifecycle_vars
    /\ UNCHANGED count_vars
    /\ UNCHANGED wait_vars
    /\ UNCHANGED status_vars
    /\ UNCHANGED artifact_vars
    /\ UNCHANGED settings_vars
    /\ UNCHANGED gateway_vars
    /\ UNCHANGED session_vars
    /\ UNCHANGED chat_vars
    /\ UNCHANGED batch_vars
    /\ UNCHANGED decomp_vars
    /\ UNCHANGED bridge_vars
    /\ UNCHANGED cost_vars

NextSave ==
    \/ \E w \in Workers : SaveOpen(w)
    \/ \E w \in Workers : SaveFlush(w)
    \/ \E w \in Workers : SaveClose(w)
    \/ \E r \in Readers : LoadContext(r)

SpecSave == InitSave /\ [][NextSave]_vars

\* ---- properties of the session file (SpecSave) --------------------------------------
\* C31: persisting the session context is atomic: at no point during a save, under
\* any interleaving with another worker or with the bridge, does a reader of the
\* session file observe an empty or a partially written document.
C31_ReaderSeesWholeDocument ==
    \A r \in Readers : observed[r] \notin {"empty", "partial"}

\* ---- a pass and the session files it reads (SpecSession) ------------------------------
\* EngageAgent.__init__: _load_or_create_session_context loads the newest session
\* file; when there is none, or it does not load (the exception is caught), a new
\* context is created and saved under a new name.
SessionStart(w) ==
    /\ pc[w] = "start"
    /\ IF own_file = "readable"
       THEN /\ session_context' = [session_context EXCEPT ![w] = session_file]
            /\ UNCHANGED <<session_file, own_file>>
       ELSE /\ session_context' = [session_context EXCEPT ![w] = <<>>]
            /\ session_file' = <<>>
            /\ own_file' = "readable"
    /\ pc' = [pc EXCEPT ![w] = "idle"]
    /\ UNCHANGED bridge_file
    /\ UNCHANGED <<files, attr, ctime, settings, created_slugs, sel, ages, res, queue, executed>>
    /\ UNCHANGED <<chat_vars, batch_vars, decomp_vars, bridge_vars, cost_vars, save_vars>>
    /\ UNCHANGED count_vars
    /\ UNCHANGED wait_vars
    /\ UNCHANGED status_vars
    /\ UNCHANGED artifact_vars
    /\ UNCHANGED settings_vars
    /\ UNCHANGED gateway_vars

\* execute_directive: _get_context_for_directive asks the bridge for the todo
\* context of a directive that carries claude_todo_id; _load_session_context has
\* no try around json.load, the exception reaches the except branch of
\* execute_directive, which returns a failure before any provider call.
SessionExecute(w) ==
    /\ pc[w] = "selected"
    /\ Exists("new", sel[w])
    /\ IF attr[sel[w]].todo /\ bridge_file = "unreadable"
       THEN /\ res' = [res EXCEPT ![w] = [success |-> FALSE, duration |-> DefaultExemplarThreshold]]
            /\ UNCHANGED executed
       ELSE /\ \E o \in Outcomes : res' = [res EXCEPT ![w] = o]
            /\ executed' = [executed EXCEPT ![sel[w]] = @ \cup {w}]
    /\ pc' = [pc EXCEPT ![w] = "executed"]
    /\ ages' = [ages EXCEPT ![w] = NoAges]
    /\ UNCHANGED <<own_file, bridge_file>>
    /\ UNCHANGED <<files, attr, ctime, settings, created_slugs, sel, queue,
                   session_context, session_file>>
    /\ UNCHANGED <<chat_vars, batch_vars, decomp_vars, bridge_vars, cost_vars, save_vars>>
    /\ UNCHANGED count_vars
    /\ UNCHANGED wait_vars
    /\ UNCHANGED status_vars
    /\ UNCHANGED artifact_vars
    /\ UNCHANGED settings_vars
    /\ UNCHANGED gateway_vars

\* _update_session_context_with_directive: for a directive that carries
\* claude_todo_id, sync_todo_status loads the bridge's session file, outside any
\* try; then the summary is appended and the agent's own file written anew.
SessionUpdate(w) ==
    /\ pc[w] = "executed"
    /\ Exists("new", sel[w])
    /\ IF attr[sel[w]].todo /\ bridge_file = "unreadable"
       THEN /\ pc' = [pc EXCEPT ![w] = "crashed"]
            /\ UNCHANGED <<session_context, session_file, own_file>>
       ELSE /\ session_context' = [session_context EXCEPT ![w] = Append(@, sel[w])]
            /\ session_file' = session_context'[w]
            /\ own_file' = "readable"
            /\ pc' = [pc EXCEPT ![w] = "logged"]
    /\ UNCHANGED bridge_file
    /\ UNCHANGED <<files, attr, ctime, settings, created_slugs, sel, ages, res, queue, executed>>
    /\ UNCHANGED <<chat_vars, batch_vars, decomp_vars, bridge_vars, cost_vars, save_vars>>
    /\ UNCHANGED count_vars
    /\ UNCHANGED wait_vars
    /\ UNCHANGED status_vars
    /\ UNCHANGED artifact_vars
    /\ UNCHANGED settings_vars
    /\ UNCHANGED gateway_vars

\* The environment: a session file is removed, or its content is damaged (a save
\* that was cut short, a file that is not JSON).
LoseSessionFile ==
    /\ \/ own_file' \in {"missing", "unreadable"} /\ UNCHANGED bridge_file
       \/ bridge_file' \in FileStates /\ UNCHANGED own_file
    /\ UNCHANGED lifecycle_vars
    /\ UNCHANGED count_vars
    /\ UNCHANGED wait_vars
    /\ UNCHANGED status_vars
    /\ UNCHANGED artifact_vars
    /\ UNCHANGED settings_vars
    /\ UNCHANGED gateway_vars
    /\ UNCHANGED chat_vars
    /\ UNCHANGED batch_vars
    /\ UNCHANGED decomp_vars
    /\ UNCHANGED bridge_vars
    /\ UNCHANGED cost_vars
    /\ UNCHANGED save_vars

\* A store of directives written by the decomposer or by the bridge, and an agent
\* that is about to be built.
InitSession ==
    /\ NoCounts
    /\ NoWaiting
    /\ NoRewrite
    /\ NoArtifacts
    /\ NoSettings
    /\ NoGateway
    /\ NoChat
    /\ NoBatch
    /\ NoDecomposition
    /\ NoBridge
    /\ NoCost
    /\ NoSave
    /\ \E prof \in [Directives -> RunProfiles] :
          /\ files = StoreOf(prof)
          /\ attr = [d \in Files |-> IF d \in Directives THEN prof[d].attr ELSE NoAttr]
          /\ ctime = [d \in Files |-> IF d \in Directives THEN prof[d].ctime ELSE 0]
    /\ settings = [exemplar_enabled |-> TRUE, exemplar_threshold_seconds |-> DefaultExemplarThreshold]
    /\ created_slugs = <<>>
    /\ pc = [w \in Workers |-> "start"]
    /\ sel = [w \in Workers |-> None]
    /\ ages = [w \in Workers |-> NoAges]
    /\ res = [w \in Workers |-> NoRes]
    /\ queue = [w \in Workers |-> <<>>]
    /\ session_context = [w \in Workers |-> <<>>]
    /\ session_file = <<>>
    /\ executed = [d \in Files |-> {}]
    /\ own_file \in FileStates
    /\ bridge_file \in FileStates

NextSession ==
    \/ SessionStart(1)
    \/ SelectStep(1)
    \/ SeqNoWork(1)
    \/ SessionExecute(1)
    \/ SessionUpdate(1)
    \/ SeqStatusRead(1)
    \/ SeqStatusWrite(1)
    \/ SeqMove(1)
    \/ LoseSessionFile

SpecSession == InitSession /\ [][NextSession]_vars

\* C32: when the session file is missing or unreadable, at start-up or during a
\* pass, also for a directive that carries an external-todo id, the worker still
\* dispatches the ready directive and goes on to relocate it: no pass ends in an
\* exception, and every directive that was executed was sent to the provider.
C32_SessionLossIsNotFatal ==
    /\ pc[1] # "crashed"
    /\ pc[1] \in {"executed", "logged", "rewriting", "moving"} => 1 \in executed[sel[1]]

\* ---- _openai_completion by the kind of the model (SpecEndpoint) ------------------------
\* openai_models: the endpoints of the models configured (chat, text completion,
\* embedding, transcription, speech, image generation).
TextEndpoints == {"/v1/chat/completions", "/v1/completions"}
Endpoints == TextEndpoints \cup {"/v1/embeddings", "/v1/audio/transcriptions",
                                 "/v1/audio/speech", "/v1/images/generations"}

\* _openai_completion on one answer to the request it posted: for the text
\* endpoints the content is taken from result["choices"], for every other endpoint
\* it is str(result), which no JSON body fails.
openai_completion(ep, reply) ==
    IF ep \in TextEndpoints THEN completion(reply)
    ELSE CASE reply \in {"ok", "missing_key"} -> {"return"}
           [] reply \in {"429", "500", "401", "403", "400", "timeout"} -> {"raise"}
           [] reply = "bad_json" -> {"raise", "fail"}
           [] OTHER -> {"fail"}

\* chat_completion is called for platform openai with a model of any configured
\* kind.
InitEndpoint ==
    /\ NoCounts
    /\ NoWaiting
    /\ NoRewrite
    /\ NoArtifacts
    /\ NoSettings
    /\ NoLifecycle
    /\ NoBatch
    /\ NoDecomposition
    /\ NoBridge
    /\ NoCost
    /\ NoSave
    /\ NoSession
    /\ \E n \in 1..MaxAttempts : \E d \in 1..MaxDelay :
          /\ call = [retry_attempts |-> n, retry_delay |-> d]
          /\ retry_delay = d
    /\ chat_pc = "attempt"
    /\ attempt = 0
    /\ calls = <<>>
    /\ sleeps = <<>>
    /\ result = NoResult
    /\ endpoint \in Endpoints

\* One iteration of the loop of chat_completion for platform openai: the request
\* is posted to the endpoint of the model, whatever its kind.
OpenaiAttempt ==
    /\ chat_pc = "attempt"
    /\ \E reply \in Replies : \E outcome \in openai_completion(endpoint, reply) :
          /\ calls' = Append(calls, reply)
          /\ CASE outcome = "return" ->
                    /\ result' = [success |-> TRUE, error |-> "", attempts |-> 0, last |-> ""]
                    /\ chat_pc' = "returned"
               [] outcome = "fail" ->
                    /\ result' = [success |-> FALSE, error |-> "unexpected", attempts |-> 0, last |-> reply]
                    /\ chat_pc' = "returned"
               [] OTHER ->
                    IF attempt < call.retry_attempts - 1
                    THEN /\ chat_pc' = "sleep"
                         /\ UNCHANGED result
                    ELSE /\ result' = [success |-> FALSE, error |-> "all_attempts_failed",
                                       attempts |-> call.retry_attempts, last |-> reply]
                         /\ chat_pc' = "returned"
    /\ UNCHANGED <<call, attempt, retry_delay, sleeps, endpoint>>
    /\ UNCHANGED batch_vars
    /\ UNCHANGED lifecycle_vars
    /\ UNCHANGED count_vars
    /\ UNCHANGED wait_vars
    /\ UNCHANGED status_vars
    /\ UNCHANGED artifact_vars
    /\ UNCHANGED settings_vars
    /\ UNCHANGED session_vars
    /\ UNCHANGED save_vars
    /\ UNCHANGED decomp_vars
    /\ UNCHANGED bridge_vars
    /\ UNCHANGED cost_vars

NextEndpoint == OpenaiAttempt \/ ChatSleep

SpecEndpoint == InitEndpoint /\ [][NextEndpoint]_vars

\* C33: a call whose model has a non-text endpoint kind (embedding, audio, image)
\* fails fast: no request is sent to the provider, nothing is retried, and the call
\* returns a failure.
C33_NonTextFailsFast ==
    endpoint \notin TextEndpoints =>
        /\ calls = <<>>
        /\ sleeps = <<>>
        /\ chat_pc = "returned" => ~result.success

\* ---- loading the settings file (SpecSettings) ------------------------------------------
\* The defaults of _load_settings, for the keys explored.
defaults ==
    [k \in SettingKeys |->
        CASE k = "exemplar_threshold_seconds" -> Value("int", DefaultExemplarThreshold, "")
          [] k = "exemplar_enabled" -> Value("bool", 1, "")
          [] k = "log_level" -> Value("str", 0, "INFO")
          [] k = "log_file" -> Value("NoneType", 0, "")
          [] OTHER -> MissingValue]

\* The texts a line of the file may give to its key.
SettingTexts(k) ==
    CASE k = "exemplar_threshold_seconds" -> {NoLine, "45", "0", "abc", "true"}
      [] k = "exemplar_enabled" -> {NoLine, "false", "maybe"}
      [] k = "log_level" -> {NoLine, "DEBUG", "LOUD"}
      [] k = "log_file" -> {NoLine, "run.log"}
      [] OTHER -> {NoLine, "red"}

\* int(value) for the texts of digits explored.
DigitsOf(text) == IF text = "45" THEN DefaultExemplarThreshold + 15 ELSE 0

\* The type conversion of _load_settings: true and false become booleans, a text of
\* digits an integer, every other text stays a string.
convert(text) ==
    CASE text \in {"true", "false"} -> Value("bool", IF text = "true" THEN 1 ELSE 0, "")
      [] text \in {"45", "0"} -> Value("int", DigitsOf(text), "")
      [] OTHER -> Value("str", 0, text)

\* The schema of ConfigValidator for the keys explored.
SchemaKeys == SettingKeys \ {"colour"}
SchemaType(k) ==
    CASE k = "exemplar_threshold_seconds" -> "int"
      [] k = "exemplar_enabled" -> "bool"
      [] OTHER -> "str"
SchemaMin == 1
SchemaMax == 3600
LogLevels == {"DEBUG", "INFO", "WARNING", "ERROR"}

\* isinstance(value, expected_type): bool is a subclass of int.
IsInstance(value, t) == value.type = t \/ (t = "int" /\ value.type = "bool")

\* _validate_field returns no error.
validate_field(k, value) ==
    /\ IsInstance(value, SchemaType(k))
    /\ k = "log_level" => value.s \in LogLevels
    /\ k = "exemplar_threshold_seconds" => value.n >= SchemaMin /\ value.n <= SchemaMax

\* validate_config returns no error: every key of the dictionary is in the schema
\* and its value passes _validate_field.
validate_config(cfg) ==
    \A k \in SettingKeys :
        cfg[k] # MissingValue => k \in SchemaKeys /\ validate_field(k, cfg[k])

\* get_default_config: the keys whose schema entry has a default.
get_default_config ==
    [k \in SettingKeys |-> IF k \in SchemaKeys \ {"log_file"} THEN defaults[k] ELSE MissingValue]

\* _load_settings: the lines of the file are merged into the defaults
\* (defaults.update(file_config)); when validation raises, the merged dictionary
\* is returned, otherwise the schema defaults updated with it.
load_settings(file) ==
    IF ~file.exists THEN defaults
    ELSE LET merged == [k \in SettingKeys |->
                           IF file.text[k] # NoLine THEN convert(file.text[k]) ELSE defaults[k]]
         IN  IF validate_config(merged)
             THEN [k \in SettingKeys |->
                      IF merged[k] # MissingValue THEN merged[k] ELSE get_default_config[k]]
             ELSE merged

InitSettings ==
    /\ NoCounts
    /\ NoWaiting
    /\ NoRewrite
    /\ NoArtifacts
    /\ NoLifecycle
    /\ NoChat
    /\ NoBatch
    /\ NoDecomposition
    /\ NoBridge
    /\ NoCost
    /\ NoSave
    /\ NoSession
    /\ NoGateway
    /\ settings_pc = "idle"
    /\ \E e \in BOOLEAN : \E text \in [SettingKeys -> UNION {SettingTexts(k) : k \in SettingKeys}] :
          /\ \A k \in SettingKeys : text[k] \in SettingTexts(k)
          /\ e = FALSE => \A k \in SettingKeys : text[k] = NoLine
          /\ settings_file = [exists |-> e, text |-> text]
    /\ config = [k \in SettingKeys |-> MissingValue]
    /\ got = MissingValue

\* Settings.__init__.
LoadSettings ==
    /\ settings_pc = "idle"
    /\ config' = load_settings(settings_file)
    /\ settings_pc' = "loaded"
    /\ UNCHANGED <<settings_file, got>>
    /\ UNCHANGED lifecycle_vars
    /\ UNCHANGED count_vars
    /\ UNCHANGED wait_vars
    /\ UNCHANGED status_vars
    /\ UNCHANGED artifact_vars
    /\ UNCHANGED <<chat_vars, batch_vars, decomp_vars, bridge_vars, cost_vars, save_vars>>
    /\ UNCHANGED session_vars
    /\ UNCHANGED gateway_vars

\* Settings.get(key) with no environment override: self._config.get(key, None).
GetSetting(k) ==
    /\ settings_pc \in {"loaded", "read"}
    /\ got' = config[k]
    /\ settings_pc' = "read"
    /\ UNCHANGED <<settings_file, config>>
    /\ UNCHANGED lifecycle_vars
    /\ UNCHANGED count_vars
    /\ UNCHANGED wait_vars
    /\ UNCHANGED status_vars
    /\ UNCHANGED artifact_vars
    /\ UNCHANGED <<chat_vars, batch_vars, decomp_vars, bridge_vars, cost_vars, save_vars>>
    /\ UNCHANGED session_vars
    /\ UNCHANGED gateway_vars

NextSettings == LoadSettings \/ \E k \in SettingKeys : GetSetting(k)

SpecSettings == InitSettings /\ [][NextSettings]_vars

\* C34: when the settings file gives an invalid value for a key, the loaded
\* configuration holds the default for that key, so that get never returns an
\* invalid value, while the keys with valid values in the same file keep their
\* file values.
C34_InvalidValueFallsBackToDefault ==
    settings_pc # "idle" =>
        /\ \A k \in SchemaKeys :
              settings_file.text[k] # NoLine =>
                 config[k] = IF validate_field(k, convert(settings_file.text[k]))
                             THEN convert(settings_file.text[k]) ELSE defaults[k]
        /\ \A k \in SchemaKeys :
              settings_pc = "read" /\ got = config[k] /\ got # defaults[k] => validate_field(k, got)

\* ---- properties of the order of the steps of a pass (SpecInterrupt) --------------------
\* C35: within a single worker the steps on one directive happen in the order
\* claim, execute, update artifact, append session context, rewrite status,
\* relocate: in every pass, sequential as well as batch, a directive is sent to
\* execution only from the position that follows its successful claim (the
\* rename to the staging folder and back), so a failed claim executes nothing.
C35_ClaimedBeforeExecuted ==
    [][\A d \in Files : executed'[d] # executed[d] => pc[1] = "b_exec"]_vars

\* ---- a run over directives with output artifacts (SpecArtifact) -----------------------
\* process_prompt has written directives, each with the placeholder file
\* <slug>-output_<time>.md written for it; the last directive was written by the
\* bridge, which writes no output file.
ArtifactOf(d) == NumDirectives + d
HasPlaceholder(f) == \E d \in Directives : f = ArtifactOf(d) /\ d < NumArtifacts

InitArtifact ==
    /\ NoCounts
    /\ NoWaiting
    /\ NoRewrite
    /\ NoChat
    /\ NoBatch
    /\ NoDecomposition
    /\ NoBridge
    /\ NoCost
    /\ NoSave
    /\ NoSession
    /\ NoGateway
    /\ NoSettings
    /\ \E prio \in [Directives -> DecomposerPriorities] :
          /\ files = [EmptyStore EXCEPT
                        !["new"] = [f \in Files |->
                                      IF f \in Directives \/ HasPlaceholder(f)
                                      THEN "pending" ELSE Absent]]
          /\ attr = [f \in Files |->
                        IF f \in Directives
                        THEN [priority |-> prio[f], fmt |-> "section", prereqs |-> <<>>,
                              todo |-> ~HasPlaceholder(ArtifactOf(f)), meta |-> TRUE,
                              artifact |-> FALSE, stem |-> "directive", slug |-> "directive"]
                        ELSE IF HasPlaceholder(f) THEN Placeholder ELSE NoAttr]
    /\ ctime = [f \in Files |-> 0]
    /\ settings = [exemplar_enabled |-> TRUE, exemplar_threshold_seconds |-> DefaultExemplarThreshold]
    /\ created_slugs = <<>>
    /\ pc = [w \in Workers |-> "idle"]
    /\ sel = [w \in Workers |-> None]
    /\ ages = [w \in Workers |-> NoAges]
    /\ res = [w \in Workers |-> NoRes]
    /\ queue = [w \in Workers |-> <<>>]
    /\ session_context = [w \in Workers |-> <<>>]
    /\ session_file = <<>>
    /\ executed = [f \in Files |-> {}]
    /\ paired = [a \in Artifacts |->
                    IF HasPlaceholder(a) THEN CHOOSE d \in Directives : a = ArtifactOf(d) ELSE None]
    /\ updated_by = [a \in Artifacts |-> <<>>]

\* execute_directive followed by update_output_file: the first file of
\* new/*output*.md, in the order glob gives them, whose name holds the first
\* dash-separated word of the directive's name is rewritten, and the loop breaks;
\* with no such file _create_output_file_for_directive writes a new output file
\* for the directive, into new.
ArtifactExecute(w) ==
    /\ pc[w] = "selected"
    /\ Exists("new", sel[w])
    /\ \E o \in Outcomes : res' = [res EXCEPT ![w] = o]
    /\ executed' = [executed EXCEPT ![sel[w]] = @ \cup {w}]
    /\ update_output_file(sel[w])
    /\ IF OutputMatches(sel[w]) # {}
       THEN /\ \E o \in OutputMatches(sel[w]) :
                  /\ files' = WriteStatus(files, "new", o, "reported")
                  /\ updated_by' = [updated_by EXCEPT ![o] = Append(@, sel[w])]
            /\ UNCHANGED paired
       ELSE LET o == CHOOSE a \in FreeArtifacts : \A b \in FreeArtifacts : a <= b IN
            /\ paired' = [paired EXCEPT ![o] = sel[w]]
            /\ updated_by' = [updated_by EXCEPT ![o] = <<sel[w]>>]
    /\ pc' = [pc EXCEPT ![w] = "executed"]
    /\ ages' = [ages EXCEPT ![w] = NoAges]
    /\ UNCHANGED <<settings, created_slugs, sel, queue, session_context, session_file>>
    /\ UNCHANGED <<chat_vars, batch_vars, decomp_vars, bridge_vars, cost_vars, save_vars>>
    /\ UNCHANGED count_vars
    /\ UNCHANGED wait_vars
    /\ UNCHANGED status_vars
    /\ UNCHANGED session_vars
    /\ UNCHANGED gateway_vars
    /\ UNCHANGED settings_vars

NextArtifact ==
    \/ SelectStep(1)
    \/ SeqNoWork(1)
    \/ ArtifactExecute(1)
    \/ SeqUpdateSession(1)
    \/ SeqStatusRead(1)
    \/ SeqStatusWrite(1)
    \/ SeqMove(1)

SpecArtifact == InitArtifact /\ [][NextArtifact]_vars

\* C36: a pass that processes directive D updates only the output artifact paired
\* with D: the artifacts of the other directives keep their placeholder content,
\* and D's own artifact is updated exactly once.
C36_OnlyThePairedArtifact ==
    \A a \in Artifacts :
        /\ \A i \in DOMAIN updated_by[a] : updated_by[a][i] = paired[a]
        /\ Len(updated_by[a]) <= 1
        /\ (paired[a] # None /\ \E f \in TerminalFolders : Exists(f, paired[a]))
              => Len(updated_by[a]) = 1

\* ---- rewriting the status of a directive file (SpecStatus) ------------------------------
MaxBodyLines == 2

\* The header the decomposer and the bridge write: the status field second, after
\* the opening line and the id.
Fence == <<"---">>
StatusLine == 3
HeaderLines(st) ==
    <<Fence, <<"id: ", "1">>, <<"status: ", st>>, <<"priority: ", "high">>, Fence>>

\* Lines a body may hold: a heading, the task details the decomposer writes, prose
\* of the prompt that names a status, a key that ends in the word.
BodyLines ==
    {<<"# Directive: ", "deploy">>,
     <<"- **Status**: ", "pending">>,
     <<"Set the field ", "status: ", "active", " in the record">>,
     <<"todo_", "status: ", "open">>,
     <<"">>}

RECURSIVE FirstIndex(_, _, _)
\* str.find of a token in a line, from position i on; 0 when it is not there.
FirstIndex(line, token, i) ==
    IF i > Len(line) THEN 0
    ELSE IF line[i] = token THEN i ELSE FirstIndex(line, token, i + 1)

\* re.sub(r'status: .*', 'status: <new>', content) on one line: the dot stops at
\* the line end, so in every line that holds "status: " the text from its first
\* occurrence to the end of the line is replaced.
re_sub_status(line, st) ==
    LET i == FirstIndex(line, "status: ", 1)
    IN  IF i = 0 THEN line ELSE SubSeq(line, 1, i - 1) \o <<"status: ", st>>

\* _update_directive_status: read_text, re.sub over the whole content, write_text.
update_directive_status(lines, st) == [i \in DOMAIN lines |-> re_sub_status(lines[i], st)]

Bodies == UNION {[1..n -> BodyLines] : n \in 0..MaxBodyLines}

InitStatus ==
    /\ NoCounts
    /\ NoWaiting
    /\ NoLifecycle
    /\ NoChat
    /\ NoBatch
    /\ NoDecomposition
    /\ NoBridge
    /\ NoCost
    /\ NoSave
    /\ NoSession
    /\ NoGateway
    /\ NoSettings
    /\ NoArtifacts
    /\ status_pc = "called"
    /\ \E st \in {"pending", "in_progress"} : \E body \in Bodies :
          file_text = HeaderLines(st) \o body
    /\ new_status \in {"completed", "failed"}
    /\ rewritten = <<>>

\* move_directive calls _update_directive_status(file_path, "completed" or "failed").
RewriteStatus ==
    /\ status_pc = "called"
    /\ rewritten' = update_directive_status(file_text, new_status)
    /\ status_pc' = "rewritten"
    /\ UNCHANGED <<file_text, new_status>>
    /\ UNCHANGED lifecycle_vars
    /\ UNCHANGED count_vars
    /\ UNCHANGED wait_vars
    /\ UNCHANGED chat_vars
    /\ UNCHANGED batch_vars
    /\ UNCHANGED decomp_vars
    /\ UNCHANGED bridge_vars
    /\ UNCHANGED cost_vars
    /\ UNCHANGED save_vars
    /\ UNCHANGED session_vars
    /\ UNCHANGED gateway_vars
    /\ UNCHANGED settings_vars
    /\ UNCHANGED artifact_vars

NextStatus == RewriteStatus

SpecStatus == InitStatus /\ [][NextStatus]_vars

\* C37: rewriting the status of a directive changes only the status field of its
\* header: every other header field and every line of the body is unchanged,
\* whatever text the body contains (body lines that contain 'status: ' included).
C37_OnlyTheStatusFieldChanges ==
    status_pc = "rewritten" =>
        /\ Len(rewritten) = Len(file_text)
        /\ rewritten[StatusLine] = <<"status: ", new_status>>
        /\ \A i \in DOMAIN file_text : i # StatusLine => rewritten[i] = file_text[i]

\* ---- the grouping of requests (SpecBatch) ----------------------------------------
\* The places (batch, position) of the grouping at which a request stands.
C38Places(bs, request) ==
    {bk \in UNION {{b} \X DOMAIN bs[b] : b \in DOMAIN bs} : bs[bk[1]][bk[2]] = request}

\* The maximum of the provider of a request: 10000 for claude and 50000 otherwise
\* in the source.
C38ProviderMax(request) ==
    IF request.platform = <<"claude">> THEN max_anthropic_batch_size ELSE max_openai_batch_size

C39Given == {j \in DOMAIN batch_jobs : \E k \in DOMAIN active_batches : active_batches[k] = batch_jobs[j]}

C39Returned(j) == {i \in DOMAIN completed_jobs : completed_jobs[i] = j}

\* C39: wait_for_batch_completion returns every job it was given exactly once and
\* no other job, each returned job has the status completed, failed or timeout
\* and never pending, submitted or processing, and the status of a job that was
\* reported terminal is not asked for again: while it waits, no job is returned
\* twice and no returned job is still in the list it polls.
C39_EveryJobReturnedOnceAndTerminal ==
    /\ repolled = {}
    /\ \A j \in DOMAIN batch_jobs : Cardinality(C39Returned(j)) <= 1
    /\ batch_pc = "waiting" =>
          \A i \in DOMAIN completed_jobs :
              /\ completed_jobs[i] \notin RemainingJobs
              /\ job_status[completed_jobs[i]] \in {"completed", "failed"}
    /\ batch_pc = "returned" =>
          /\ \A j \in C39Given : Cardinality(C39Returned(j)) = 1
          /\ \A i \in DOMAIN completed_jobs :
                /\ completed_jobs[i] \in C39Given
                /\ job_status[completed_jobs[i]] \in {"completed", "failed", "timeout"}

\* Two jobs were waited for over two rounds: one was reported completed in the
\* first round, the other never became terminal and was returned as timeout.
C39_Witness ==
    /\ batch_pc = "returned"
    /\ polls = MaxPolls
    /\ Len(completed_jobs) = 2
    /\ job_status[completed_jobs[1]] = "completed"
    /\ job_status[completed_jobs[2]] = "timeout"

\* ---- the counts of a batch pass (SpecCount) ---------------------------------------
\* run_batch_processing with its locals success_count and failed_count, one
\* worker: every step of the pass together with what it does to the counters.
\* The counters start at zero before the loop.
CountBatchStart(w) ==
    /\ BatchStartStep(w)
    /\ success_count' = [success_count EXCEPT ![w] = 0]
    /\ failed_count' = [failed_count EXCEPT ![w] = 0]
    /\ claimed' = [claimed EXCEPT ![w] = {}]
    /\ UNCHANGED uncounted_vars

CountBatchClaim(w) == BatchClaimStep(w) /\ UNCHANGED count_vars /\ UNCHANGED uncounted_vars

\* _claim_directive returns True when its second rename has succeeded.
CountBatchClaimBack(w) ==
    /\ BatchClaimBackStep(w)
    /\ claimed' = IF Exists("processing", sel[w]) THEN [claimed EXCEPT ![w] = @ \cup {sel[w]}]
                  ELSE claimed
    /\ UNCHANGED <<success_count, failed_count>>
    /\ UNCHANGED uncounted_vars

CountBatchExecute(w) == BatchExecuteStep(w) /\ UNCHANGED count_vars /\ UNCHANGED uncounted_vars

\* After the move to success: success_count += 1; after the move to failed:
\* failed_count += 1. A move that raises counts nothing here.
CountBatchMove(w) ==
    /\ BatchMoveStep(w)
    /\ success_count' = IF Exists("new", sel[w]) /\ res[w].success
                        THEN [success_count EXCEPT ![w] = @ + 1] ELSE success_count
    /\ failed_count' = IF Exists("new", sel[w]) /\ ~res[w].success
                       THEN [failed_count EXCEPT ![w] = @ + 1] ELSE failed_count
    /\ UNCHANGED claimed
    /\ UNCHANGED uncounted_vars

CountBatchLog(w) == BatchLogStep(w) /\ UNCHANGED count_vars /\ UNCHANGED uncounted_vars

\* The except branch of the loop starts with failed_count += 1.
CountBatchExcept(w) ==
    /\ BatchExceptStep(w)
    /\ failed_count' = [failed_count EXCEPT ![w] = @ + 1]
    /\ UNCHANGED <<success_count, claimed>>
    /\ UNCHANGED uncounted_vars

\* The counts are reported as they are.
CountBatchFinish(w) == BatchFinishStep(w) /\ UNCHANGED count_vars /\ UNCHANGED uncounted_vars

NextCount ==
    \/ CountBatchStart(1)
    \/ CountBatchClaim(1)
    \/ CountBatchClaimBack(1)
    \/ CountBatchExecute(1)
    \/ CountBatchMove(1)
    \/ CountBatchLog(1)
    \/ CountBatchExcept(1)
    \/ CountBatchFinish(1)

SpecCount == InitSelect /\ [][NextCount]_vars

\* C40: at the end of run_batch_processing success_count + failed_count is the
\* number of directives the run claimed, and each claimed directive is counted
\* once: success_count is the number of claimed directives in the success folder
\* and failed_count the number of claimed directives in the failed folder.
C40_CountsMatchTheClaimed ==
    pc[1] = "idle" =>
        /\ success_count[1] + failed_count[1] = Cardinality(claimed[1])
        /\ success_count[1] = Cardinality({d \in claimed[1] : Exists("success", d)})
        /\ failed_count[1] = Cardinality({d \in claimed[1] : Exists("failed", d)})

====
